---- MODULE Spec2Model ----
(***************************************************************************)
(* A model of the data/text pipeline's caching layer (cache_manager.py)    *)
(* and of the staged pipeline that memoizes through it                     *)
(* (unified_pipeline.py).                                                  *)
(*                                                                         *)
(* Conventions.  A Python str is a sequence of text pieces, each piece a   *)
(* TLA+ string standing for exactly that text, so that concatenation,      *)
(* startswith and len are computed and not assumed.  A Python object is a  *)
(* record with a "kind" field.  The cache directory is a function from the *)
(* paths of the files that exist to their bytes.                           *)
(***************************************************************************)
EXTENDS Integers, Sequences, FiniteSets, TLC

VARIABLES
    cache_files,   \* the .pkl files under the cache root: <<category, key>> -> bytes
    fs,            \* the input files on disk: path -> [mtime, doc]
    clock,         \* the file system's clock, the source of modification times
    data_df,       \* UnifiedPipeline.data_df
    text_data,     \* UnifiedPipeline.text_data
    results,       \* UnifiedPipeline.results
    use_cache,     \* UnifiedPipeline.use_cache (self.cache is None when FALSE)
    last,          \* the call that was made last, with what it returned
    writers        \* the processes inside CacheManager.set: position, offset

pipeline_vars == <<data_df, text_data, results, use_cache>>

vars ==
    <<cache_files, fs, clock, data_df, text_data, results, use_cache, last,
      writers>>

----------------------------------------------------------------------------
(* Python values *)

None == [kind |-> "None"]

Bool(b) == [kind |-> "bool", val |-> b]

Obj(name) == [kind |-> "obj", name |-> name]

Str(s) == [kind |-> "str", s |-> s]

Num(n) == [kind |-> "int", n |-> n]

List(items) == [kind |-> "list", items |-> items]

\* a missing cell of a table (NaN)
NaN == [kind |-> "nan"]

\* a value pickle cannot serialise (a lambda, an open file, ...)
Lambda == [kind |-> "function"]

Picklable(data) == data.kind # "function"

----------------------------------------------------------------------------
(* pickle: dump writes the serialised object, load reads it back or raises *)

\* the bytes of a file whose write stopped before the object was written
Truncated == [fmt |-> "truncated"]

PickleDump(data) == [fmt |-> "pickle", obj |-> data]

PickleLoad(bytes) ==
    IF bytes.fmt = "pickle"
    THEN [raised |-> FALSE, value |-> bytes.obj]
    ELSE [raised |-> TRUE, value |-> None]

----------------------------------------------------------------------------
(* CacheManager *)

\* the subdirectories __init__ creates
Categories == {"data", "analysis", "nlp"}

\* cache_dir / category / f"{key}.pkl"
CachePath(key, category) == <<category, key>>

PathExists(files, path) == path \in DOMAIN files

\* the files of one category directory, as glob('*.pkl') lists them
Glob(files, category) == {p \in DOMAIN files : p[1] = category}

Unlink(files, paths) == [p \in (DOMAIN files) \ paths |-> files[p]]

\* variants of the operations below, each a slip the code could have made
GetIgnoringCategory(files, key, category) ==
    LET cache_path == CachePath(key, "data") IN
    IF PathExists(files, cache_path)
    THEN LET r == PickleLoad(files[cache_path]) IN
         IF r.raised
         THEN [value |-> None, error |-> "read", raised |-> FALSE]
         ELSE [value |-> r.value, error |-> "", raised |-> FALSE]
    ELSE [value |-> None, error |-> "", raised |-> FALSE]

GetUncaught(files, key, category) ==
    LET cache_path == CachePath(key, category) IN
    IF PathExists(files, cache_path)
    THEN LET r == PickleLoad(files[cache_path]) IN
         [value |-> r.value, error |-> "", raised |-> r.raised]
    ELSE [value |-> None, error |-> "", raised |-> FALSE]

SetKeepExisting(files, key, data, category, io) ==
    LET cache_path == CachePath(key, category) IN
    IF io = "open_error" \/ category \notin Categories
    THEN [files |-> files, error |-> "open", raised |-> FALSE]
    ELSE IF PathExists(files, cache_path)
    THEN [files |-> files, error |-> "", raised |-> FALSE]
    ELSE IF io = "write_error" \/ ~Picklable(data)
    THEN [files |-> (cache_path :> Truncated) @@ files,
          error |-> "dump", raised |-> FALSE]
    ELSE [files |-> (cache_path :> PickleDump(data)) @@ files,
          error |-> "", raised |-> FALSE]

SetIgnoringCategory(files, key, data, category, io) ==
    LET cache_path == CachePath(key, "data") IN
    IF io = "open_error" \/ category \notin Categories
    THEN [files |-> files, error |-> "open", raised |-> FALSE]
    ELSE IF io = "write_error" \/ ~Picklable(data)
    THEN [files |-> (cache_path :> Truncated) @@ files,
          error |-> "dump", raised |-> FALSE]
    ELSE [files |-> (cache_path :> PickleDump(data)) @@ files,
          error |-> "", raised |-> FALSE]

SetUncaught(files, key, data, category, io) ==
    LET cache_path == CachePath(key, category) IN
    IF io = "open_error" \/ category \notin Categories
    THEN [files |-> files, error |-> "open", raised |-> TRUE]
    ELSE IF io = "write_error" \/ ~Picklable(data)
    THEN [files |-> (cache_path :> Truncated) @@ files,
          error |-> "dump", raised |-> TRUE]
    ELSE [files |-> (cache_path :> PickleDump(data)) @@ files,
          error |-> "", raised |-> FALSE]

ExistsAfterRead(files, key, category) ==
    PathExists(files, CachePath(key, category))
        /\ ~PickleLoad(files[CachePath(key, category)]).raised

ClearIgnoringCategory(files, category) ==
    Unlink(files, UNION {Glob(files, c) : c \in Categories})

ClearFirstOnly(files, category) ==
    IF category # ""
    THEN Unlink(files, Glob(files, category))
    ELSE Unlink(files, Glob(files, "data"))

\* get: the unpickled object, or None when there is no file or the read fails
Get(files, key, category) ==
    LET cache_path == CachePath(key, category) IN
    IF PathExists(files, cache_path)
    THEN LET r == PickleLoad(files[cache_path]) IN
         IF r.raised
         THEN [value |-> None, error |-> "read", raised |-> FALSE]
         ELSE [value |-> r.value, error |-> "", raised |-> FALSE]
    ELSE [value |-> None, error |-> "", raised |-> FALSE]

\* set: open(cache_path, 'wb') creates or truncates the file, pickle.dump
\* writes it; io is what the file system does to this write.  Every
\* exception is caught and printed ("error" names the step that failed).
Set(files, key, data, category, io) ==
    LET cache_path == CachePath(key, category) IN
    IF io = "open_error" \/ category \notin Categories
    THEN [files |-> files, error |-> "open", raised |-> FALSE]
    ELSE IF io = "write_error" \/ ~Picklable(data)
    THEN [files |-> (cache_path :> Truncated) @@ files,
          error |-> "dump", raised |-> FALSE]
    ELSE [files |-> (cache_path :> PickleDump(data)) @@ files,
          error |-> "", raised |-> FALSE]

Exists(files, key, category) == PathExists(files, CachePath(key, category))

\* clear: a falsy category (None, '') clears every category directory
Clear(files, category) ==
    IF category # ""
    THEN Unlink(files, Glob(files, category))
    ELSE Unlink(files, UNION {Glob(files, c) : c \in Categories})

\* get_cache_size: per category directory, the number of files
GetCacheSize(files) ==
    [c \in Categories |-> [file_count |-> Cardinality(Glob(files, c))]]

----------------------------------------------------------------------------
(* Bounds and inputs of the store's own operations *)

NumKeys == 1

KeyNames == <<"k1", "k2", "k3">>

Keys == {<<KeyNames[i]>> : i \in 1..NumKeys}

Values == {Obj("v1"), Obj("v2"), Lambda}

IoOutcomes == {"ok", "open_error", "write_error"}

\* what the file system does to a direct set; a write that stops half way
\* leaves what an unserialisable value (Lambda) leaves
StoreIo == {"ok", "open_error"}

NoKey == <<>>

\* existed: whether the call's target (set: its file; clear: its scope) held
\* an entry when the call was made
Call(op, key, category, arg, ret, error, raised, existed) ==
    [op |-> op, key |-> key, category |-> category, arg |-> arg, ret |-> ret,
     error |-> error, raised |-> raised, existed |-> existed]

----------------------------------------------------------------------------
(* The store's operations as actions *)

CacheSet(key, data, category, io) ==
    \E r \in {Set(cache_files, key, data, category, io)} :
    /\ cache_files' = r.files
    /\ last' = Call("set", key, category, data, None, r.error, r.raised,
                    Exists(cache_files, key, category))
    /\ UNCHANGED <<fs, clock, writers, pipeline_vars>>

CacheGet(key, category) ==
    \E r \in {Get(cache_files, key, category)} :
    /\ last' = Call("get", key, category, None, r.value, r.error, r.raised,
                    Exists(cache_files, key, category))
    /\ UNCHANGED <<cache_files, fs, clock, writers, pipeline_vars>>

CacheExists(key, category) ==
    /\ last' = Call("exists", key, category, None,
                    Bool(Exists(cache_files, key, category)), "", FALSE, FALSE)
    /\ UNCHANGED <<cache_files, fs, clock, writers, pipeline_vars>>

CacheClear(category) ==
    /\ cache_files' = Clear(cache_files, category)
    /\ last' = Call("clear", NoKey, category, None, None, "", FALSE,
                    cache_files' # cache_files)
    /\ UNCHANGED <<fs, clock, writers, pipeline_vars>>

CacheGetCacheSize ==
    /\ last' = Call("get_cache_size", NoKey, "", None,
                    [kind |-> "sizes", sizes |-> GetCacheSize(cache_files)],
                    "", FALSE, FALSE)
    /\ UNCHANGED <<cache_files, fs, clock, writers, pipeline_vars>>

\* CacheManager.__init__ on a fresh cache root
StoreInit ==
    /\ cache_files = << >>
    /\ fs = << >>
    /\ clock = 0
    /\ writers = << >>
    /\ data_df = None
    /\ text_data = << >>
    /\ results = << >>
    /\ use_cache = TRUE
    /\ last = Call("init", NoKey, "", None, None, "", FALSE, FALSE)

StoreNext ==
    \/ \E k \in Keys, v \in Values, c \in Categories, io \in StoreIo :
          CacheSet(k, v, c, io)
    \/ \E k \in Keys, c \in Categories : CacheGet(k, c)
    \/ \E k \in Keys, c \in Categories : CacheExists(k, c)
    \/ \E c \in Categories \cup {""} : CacheClear(c)
    \/ CacheGetCacheSize

StoreSpec == StoreInit /\ [][StoreNext]_vars

\* a category for which __init__ creates no subdirectory
NewCategory == "raw_data"

\* the store called with its own categories and with a new one, every
\* write of a value that can be pickled, on a file system that lets it
AreaNext ==
    \/ \E k \in Keys, v \in {Obj("v1"), Obj("v2")},
          c \in Categories \cup {NewCategory} : CacheSet(k, v, c, "ok")
    \/ \E k \in Keys, c \in Categories \cup {NewCategory} : CacheGet(k, c)
    \/ \E k \in Keys, c \in Categories \cup {NewCategory} : CacheExists(k, c)
    \/ \E c \in Categories \cup {NewCategory} : CacheClear(c)

AreaSpec == StoreInit /\ [][AreaNext]_vars

----------------------------------------------------------------------------
(* Two processes in CacheManager.set on one cache file.  pickle.dump hands *)
(* the serialised object to the file in one or more writes, and each       *)
(* process writes at the offset of its own open file                       *)

\* the number of writes one pickle.dump makes, at most
MaxWrites == 2

Procs == {1, 2}

\* the value process p sets
RaceValue(p) == Obj(<<"v1", "v2">>[p])

RaceKey == <<"k1">>

\* a stretch of a file that no write has filled (zero bytes)
Hole == [fmt |-> "hole"]

\* the i-th of the n writes of pickle.dump(data, f)
Chunk(data, i, n) == [fmt |-> "chunk", obj |-> data, part |-> i, parts |-> n]

\* the bytes of a file as the stretches written to it
Stream(chunks) == [fmt |-> "stream", chunks |-> chunks]

\* open(cache_path, 'wb'): the file is created, or truncated to nothing
OpenWb(files, cache_path) == (cache_path :> Stream(<< >>)) @@ files

\* a write at the offset of an open file: the stretch there is replaced,
\* and a file that ends before the offset is extended by a hole
WriteAt(chunks, offset, chunk) ==
    [i \in 1..(IF Len(chunks) > offset THEN Len(chunks) ELSE offset + 1) |->
        IF i = offset + 1 THEN chunk
        ELSE IF i <= Len(chunks) THEN chunks[i]
        ELSE Hole]

\* the file starts with all the writes of one pickle.dump
Whole(chunks) ==
    /\ chunks # << >>
    /\ chunks[1].fmt = "chunk"
    /\ Len(chunks) >= chunks[1].parts
    /\ \A i \in 1..chunks[1].parts :
          /\ chunks[i].fmt = "chunk"
          /\ chunks[i].obj = chunks[1].obj
          /\ chunks[i].part = i

\* an object unpickled from the writes of more than one pickle.dump
Mixture(chunks) == [kind |-> "mixture", of |-> chunks]

\* pickle.load of a stream: the object whose writes start the file,
\* whatever follows them; of any other content an exception or, when the
\* bytes happen to parse, an object that was never dumped
LoadStream(chunks) ==
    IF Whole(chunks)
    THEN {[raised |-> FALSE, value |-> chunks[1].obj]}
    ELSE IF chunks = << >> \/ chunks[1].fmt # "chunk"
    THEN {[raised |-> TRUE, value |-> None]}
    ELSE {[raised |-> TRUE, value |-> None],
          [raised |-> FALSE, value |-> Mixture(chunks)]}

\* get, of a file written in stretches: what it may return
GetStream(files, key, category) ==
    LET cache_path == CachePath(key, category) IN
    IF PathExists(files, cache_path)
    THEN {IF r.raised
          THEN [value |-> None, error |-> "read", raised |-> FALSE]
          ELSE [value |-> r.value, error |-> "", raised |-> FALSE] :
             r \in LoadStream(files[cache_path].chunks)}
    ELSE {[value |-> None, error |-> "", raised |-> FALSE]}

\* process p is at pc in set, having made offset of its parts writes
Writer(pc, offset, parts) == [pc |-> pc, offset |-> offset, parts |-> parts]

\* set, first step: open(cache_path, 'wb')
SetOpen(p) ==
    /\ writers.at[p].pc = "called"
    /\ cache_files' = OpenWb(cache_files, CachePath(RaceKey, "data"))
    /\ writers' = [writers EXCEPT !.at[p].pc = "open"]
    /\ UNCHANGED <<fs, clock, pipeline_vars, last>>

\* set, next steps: one write of pickle.dump (the last one when the file
\* is flushed)
SetWrite(p) ==
    LET cache_path == CachePath(RaceKey, "data")
        me == writers.at[p]
    IN
    /\ me.pc = "open"
    /\ me.offset < me.parts
    /\ cache_files' =
          [cache_files EXCEPT ![cache_path] =
              Stream(WriteAt(cache_files[cache_path].chunks, me.offset,
                             Chunk(RaceValue(p), me.offset + 1, me.parts)))]
    /\ writers' = [writers EXCEPT !.at[p].offset = me.offset + 1]
    /\ UNCHANGED <<fs, clock, pipeline_vars, last>>

\* set, last step: the file is closed and set returns
SetClose(p) ==
    /\ writers.at[p].pc = "open"
    /\ writers.at[p].offset = writers.at[p].parts
    /\ writers' = [writers EXCEPT !.at[p].pc = "returned",
                                  !.returned = Append(writers.returned, p)]
    /\ last' = Call("set", RaceKey, "data", RaceValue(p), None, "", FALSE,
                    TRUE)
    /\ UNCHANGED <<cache_files, fs, clock, pipeline_vars>>

\* get by either process or a third one, at any time
RaceGet ==
    \E r \in GetStream(cache_files, RaceKey, "data") :
    /\ last' = Call("get", RaceKey, "data", None, r.value, r.error, r.raised,
                    Exists(cache_files, RaceKey, "data"))
    /\ UNCHANGED <<cache_files, fs, clock, pipeline_vars, writers>>

\* both processes have called set on the same key and category, over a
\* cache root where the cell is absent or holds an earlier value
RaceInit ==
    /\ cache_files \in
          {<< >>,
           CachePath(RaceKey, "data") :> Stream(<<Chunk(Obj("v0"), 1, 1)>>)}
    /\ fs = << >>
    /\ clock = 0
    /\ data_df = None
    /\ text_data = << >>
    /\ results = << >>
    /\ use_cache = TRUE
    /\ last = Call("init", NoKey, "", None, None, "", FALSE, FALSE)
    /\ \E parts \in [Procs -> 1..MaxWrites] :
          writers = [at |-> [p \in Procs |-> Writer("called", 0, parts[p])],
                     returned |-> << >>]

RaceNext ==
    \/ \E p \in Procs : SetOpen(p)
    \/ \E p \in Procs : SetWrite(p)
    \/ \E p \in Procs : SetClose(p)
    \/ RaceGet

RaceSpec == RaceInit /\ [][RaceNext]_vars

----------------------------------------------------------------------------
(* Python strings, as sequences of text pieces *)

\* the number of characters of a piece
PieceLen(piece) ==
    CASE piece \in {".csv", ".txt", "fine"} -> 4
      [] piece \in {"0.0", "1.0", "2.0", "3.0", "4.0", "bad"} -> 3
      [] piece = "great" -> 5
      [] piece = ", " -> 2
      [] piece = "_entities" -> 9
      [] OTHER -> 1

RECURSIVE StrLen(_)
StrLen(s) == IF s = << >> THEN 0 ELSE PieceLen(Head(s)) + StrLen(Tail(s))

\* s.startswith(piece), a leading piece of the text being a piece of s
StartsWith(s, piece) == Len(s) > 0 /\ s[1] = piece

\* str(float), for the modification times the clock hands out
FloatStr(n) == << <<"0.0", "1.0", "2.0", "3.0", "4.0">>[n + 1] >>

\* repr of a list element
Repr(item) ==
    CASE item.kind = "str" -> <<"'">> \o item.s \o <<"'">>
      [] item.kind = "int" -> FloatStr(item.n)
      [] OTHER -> <<"nan">>

RECURSIVE JoinRepr(_)
JoinRepr(items) ==
    IF items = << >> THEN << >>
    ELSE IF Len(items) = 1 THEN Repr(items[1])
    ELSE Repr(items[1]) \o <<", ">> \o JoinRepr(Tail(items))

\* str(list)
StrOfList(items) == <<"[">> \o JoinRepr(items) \o <<"]">>

----------------------------------------------------------------------------
(* The input files *)

PlainCsv == <<"a", ".csv">>

\* an existing file whose name starts with a bracket
BracketCsv == <<"[", "b", "]", ".csv">>

NotesTxt == <<"c", ".txt">>

\* a path at which there is never a file
MissingCsv == <<"d", ".csv">>

\* Path(file_path).suffix
Suffix(path) == path[Len(path)]

\* Path(data).exists()
FsExists(fsys, path) == path \in DOMAIN fsys

----------------------------------------------------------------------------
(* CacheManager._generate_key *)

PathProbeLimit == 255

\* hashlib.md5(...).hexdigest(): taken to be free of collisions
Md5(data_str) == <<"md5:">> \o data_str

\* the layouts the objects of a process can have in memory: the address of
\* an object is a base, which differs from layout to layout, and an offset
AddressSpaces == {"0x7f10", "0x7f20"}

\* the process a pipeline runs in
ThisProcess == "0x7f10"

IntStr(n) == <<"0", "1", "2", "3", "4">>[n + 1]

\* the cells of row i, in column order
RowCells(df, i) == [j \in 1..Len(df.columns) |-> df.rows[i][df.columns[j]]]

RECURSIVE FlattenRows(_, _)
FlattenRows(df, i) ==
    IF i > Len(df.rows) THEN << >>
    ELSE RowCells(df, i) \o FlattenRows(df, i + 1)

\* data.values: the cells in row-major order, without the column names
TableValues(df) == FlattenRows(df, 1)

\* a table with a column that is not numeric has dtype object
IsObjectDtype(cells) == \E i \in 1..Len(cells) : cells[i].kind # "int"

RECURSIVE Pointers(_, _, _)
Pointers(cells, i, heap) ==
    IF i > Len(cells) THEN << >>
    ELSE <<heap, "+", IntStr(i)>> \o Pointers(cells, i + 1, heap)

RECURSIVE Numbers(_)
Numbers(cells) ==
    IF cells = << >> THEN << >>
    ELSE <<IntStr(Head(cells).n)>> \o Numbers(Tail(cells))

\* ndarray.tobytes(): the numbers of a numeric array, and of an object
\* array the pointers to its cells, which are addresses in the process
ToBytes(cells, heap) ==
    IF IsObjectDtype(cells) THEN Pointers(cells, 1, heap) ELSE Numbers(cells)

GenerateKey(data, fsys, heap) ==
    LET data_str ==
          CASE data.kind = "DataFrame" ->
                 <<"b'">> \o ToBytes(TableValues(data), heap) \o <<"'">>
            [] data.kind = "list" -> StrOfList(data.items)
            [] data.kind = "str" ->
                 IF StrLen(data.s) < PathProbeLimit
                      /\ ~StartsWith(data.s, "[")
                      /\ FsExists(fsys, data.s)
                 THEN data.s \o <<"_">> \o FloatStr(fsys[data.s].mtime)
                 ELSE data.s
            [] OTHER -> Repr(data)
    IN Md5(data_str)

----------------------------------------------------------------------------
(* Tables and the external collaborators *)

DataFrame(rows) ==
    [kind |-> "DataFrame", columns |-> <<"rating", "review">>, rows |-> rows]

Row(rating, review) == [rating |-> Num(rating), review |-> Str(<<review>>)]

\* what the input files hold, before and after an edit (of one rating)
ReviewsV1 == DataFrame(<<Row(4, "great"), Row(1, "bad")>>)

ReviewsV2 == DataFrame(<<Row(4, "great"), Row(2, "bad")>>)

File(mtime, doc) == [mtime |-> mtime, doc |-> doc]

SupportedSuffixes == {".csv", ".xls", ".xlsx", ".json"}

\* pd.read_csv / read_excel / read_json
ReadTable(fsys, file_path) == fsys[file_path].doc

Range(seq) == {seq[i] : i \in 1..Len(seq)}

\* data_df[column_name]
Column(df, column_name) ==
    [i \in 1..Len(df.rows) |-> df.rows[i][column_name]]

IsPresent(cell) == cell.kind # "nan"

\* Series.dropna().tolist()
DropNa(cells) == SelectSeq(cells, IsPresent)

\* TextBlob(text).sentiment, in hundredths
Polarity(text) ==
    CASE text = <<"great">> -> 80
      [] text = <<"bad">> -> 0 - 70
      [] text = <<"fair">> -> 10
      [] text = <<"poor">> -> 0 - 10
      [] OTHER -> 5

Subjectivity(text) ==
    CASE text = <<"great">> -> 75
      [] text = <<"bad">> -> 67
      [] OTHER -> 50

\* the polarity above which an entry is positive and below whose negation
\* it is negative (0.1), in hundredths
PolarityThreshold == 10

RECURSIVE SumSeq(_)
SumSeq(ns) == IF ns = << >> THEN 0 ELSE Head(ns) + SumSeq(Tail(ns))

\* sum(...) / len(sentiments), kept as the exact quotient
Average(ns) == [num |-> SumSeq(ns), den |-> Len(ns)]

\* analyze_sentiment counting as neutral only what lies strictly between
\* the thresholds
SentimentResultsStrictNeutral(texts) ==
    LET sentiments == [i \in 1..Len(texts) |->
                         [polarity |-> Polarity(texts[i].s),
                          subjectivity |-> Subjectivity(texts[i].s)]]
        IsPositive(x) == x.polarity > PolarityThreshold
        IsNeutral(x) == (0 - PolarityThreshold) < x.polarity
                           /\ x.polarity < PolarityThreshold
        IsNegative(x) == x.polarity < 0 - PolarityThreshold
    IN [kind |-> "sentiment",
        sentiments |-> sentiments,
        avg_polarity |->
            Average([i \in 1..Len(sentiments) |-> sentiments[i].polarity]),
        avg_subjectivity |->
            Average([i \in 1..Len(sentiments) |-> sentiments[i].subjectivity]),
        positive_count |-> Len(SelectSeq(sentiments, IsPositive)),
        neutral_count |-> Len(SelectSeq(sentiments, IsNeutral)),
        negative_count |-> Len(SelectSeq(sentiments, IsNegative)),
        total |-> Len(sentiments)]

\* the body of analyze_sentiment between the cache lookup and the write
SentimentResults(texts) ==
    LET sentiments == [i \in 1..Len(texts) |->
                         [polarity |-> Polarity(texts[i].s),
                          subjectivity |-> Subjectivity(texts[i].s)]]
        IsPositive(x) == x.polarity > PolarityThreshold
        IsNeutral(x) == (0 - PolarityThreshold) <= x.polarity
                           /\ x.polarity <= PolarityThreshold
        IsNegative(x) == x.polarity < 0 - PolarityThreshold
    IN [kind |-> "sentiment",
        sentiments |-> sentiments,
        avg_polarity |->
            Average([i \in 1..Len(sentiments) |-> sentiments[i].polarity]),
        avg_subjectivity |->
            Average([i \in 1..Len(sentiments) |-> sentiments[i].subjectivity]),
        positive_count |-> Len(SelectSeq(sentiments, IsPositive)),
        neutral_count |-> Len(SelectSeq(sentiments, IsNeutral)),
        negative_count |-> Len(SelectSeq(sentiments, IsNegative)),
        total |-> Len(sentiments)]

\* AdvancedNLP.extract_entities: a deterministic function of the texts
NlpExtractEntities(texts) == [kind |-> "entities", texts |-> texts]

\* AdvancedNLP.extract_keywords / extract_keywords_tfidf
NlpExtractKeywords(texts, method, top_n) ==
    [kind |-> "ranked", method |-> method, top_n |-> top_n, texts |-> texts]

\* TextBlob and spaCy raise on an entry that is not a str
AllStr(texts) == \A i \in 1..Len(texts) : texts[i].kind = "str"

----------------------------------------------------------------------------
(* UnifiedPipeline: each method as a function of the pipeline object, the   *)
(* cache files and the input files                                         *)

Self == [data_df |-> data_df, text_data |-> text_data,
         results |-> results, use_cache |-> use_cache]

\* what a call did: the object and the cache files after it, the exception
\* it raised (""  when it returned), the cache cell it used, whether it was
\* served from the cache, whether it ran its parser or collaborator, and
\* the warnings of its get and of its set
Outcome(self, files, raised, key, category, hit, computed, get_err, set_err) ==
    [self |-> self, files |-> files, raised |-> raised, key |-> key,
     category |-> category, hit |-> hit, computed |-> computed,
     get_error |-> get_err, set_error |-> set_err]

\* a pipeline without a cache looks nothing up and writes nothing
NoLookup == [value |-> None, error |-> "", raised |-> FALSE]

NoWrite(files) == [files |-> files, error |-> "", raised |-> FALSE]

Lookup(self, files, cache_key, category) ==
    IF self.use_cache THEN Get(files, cache_key, category) ELSE NoLookup

\* a write back that leaves a cell that has a file as it is
WriteBackOnceOnly(self, files, cache_key, data, category, io) ==
    IF self.use_cache /\ cache_key # << >>
    THEN SetKeepExisting(files, cache_key, data, category, io)
    ELSE NoWrite(files)

WriteBack(self, files, cache_key, data, category, io) ==
    IF self.use_cache /\ cache_key # << >>
    THEN Set(files, cache_key, data, category, io)
    ELSE NoWrite(files)

\* load_structured_data of a pipeline that goes to the store of the default
\* cache root whether its cache is enabled or not
LoadStructuredDataSharedStore(self, files, fsys, file_path, io) ==
    IF ~FsExists(fsys, file_path)
    THEN Outcome(self, files, "FileNotFoundError", NoKey, "data",
                 FALSE, FALSE, "", "")
    ELSE
      LET cache_key == GenerateKey(Str(file_path), fsys, ThisProcess)
          cached == Get(files, cache_key, "data")
      IN
      IF cached.value # None
      THEN Outcome([self EXCEPT !.data_df = cached.value], files, "",
                   cache_key, "data", TRUE, FALSE, cached.error, "")
      ELSE IF Suffix(file_path) \notin SupportedSuffixes
      THEN Outcome(self, files, "ValueError", cache_key, "data",
                   FALSE, FALSE, cached.error, "")
      ELSE
        LET df == ReadTable(fsys, file_path)
            written == Set(files, cache_key, df, "data", io)
        IN Outcome([self EXCEPT !.data_df = df], written.files, "",
                   cache_key, "data", FALSE, TRUE, cached.error,
                   written.error)

\* load_structured_data that consults the cache before it looks for the
\* file
LoadStructuredDataCacheFirst(self, files, fsys, file_path, io) ==
    LET cache_key == IF self.use_cache
                     THEN GenerateKey(Str(file_path), fsys, ThisProcess)
                     ELSE NoKey
        cached == Lookup(self, files, cache_key, "data")
    IN
    IF self.use_cache /\ ~cached.raised /\ cached.value # None
    THEN Outcome([self EXCEPT !.data_df = cached.value], files, "",
                 cache_key, "data", TRUE, FALSE, cached.error, "")
    ELSE IF ~FsExists(fsys, file_path)
    THEN Outcome(self, files, "FileNotFoundError", NoKey, "data",
                 FALSE, FALSE, "", "")
    ELSE IF Suffix(file_path) \notin SupportedSuffixes
    THEN Outcome(self, files, "ValueError", cache_key, "data",
                 FALSE, FALSE, cached.error, "")
    ELSE
      LET df == ReadTable(fsys, file_path)
          written == WriteBack(self, files, cache_key, df, "data", io)
      IN Outcome([self EXCEPT !.data_df = df], written.files,
                 IF written.raised THEN "PicklingError" ELSE "",
                 cache_key, "data", FALSE, TRUE, cached.error,
                 written.error)

\* load_structured_data that drops the table it holds before it looks at
\* the suffix
LoadStructuredDataDropsTable(self, files, fsys, file_path, io) ==
    IF ~FsExists(fsys, file_path)
    THEN Outcome(self, files, "FileNotFoundError", NoKey, "data",
                 FALSE, FALSE, "", "")
    ELSE
      LET cache_key == IF self.use_cache
                       THEN GenerateKey(Str(file_path), fsys, ThisProcess)
                       ELSE NoKey
          cached == Lookup(self, files, cache_key, "data")
      IN
      IF self.use_cache /\ ~cached.raised /\ cached.value # None
      THEN Outcome([self EXCEPT !.data_df = cached.value], files, "",
                   cache_key, "data", TRUE, FALSE, cached.error, "")
      ELSE IF Suffix(file_path) \notin SupportedSuffixes
      THEN Outcome([self EXCEPT !.data_df = None], files, "ValueError",
                   cache_key, "data", FALSE, FALSE, cached.error, "")
      ELSE
        LET df == ReadTable(fsys, file_path)
            written == WriteBack(self, files, cache_key, df, "data", io)
        IN Outcome([self EXCEPT !.data_df = df], written.files,
                   IF written.raised THEN "PicklingError" ELSE "",
                   cache_key, "data", FALSE, TRUE, cached.error,
                   written.error)

LoadStructuredData(self, files, fsys, file_path, io) ==
    IF ~FsExists(fsys, file_path)
    THEN Outcome(self, files, "FileNotFoundError", NoKey, "data",
                 FALSE, FALSE, "", "")
    ELSE
      LET cache_key == IF self.use_cache
                       THEN GenerateKey(Str(file_path), fsys, ThisProcess)
                       ELSE NoKey
          cached == Lookup(self, files, cache_key, "data")
      IN
      IF cached.raised
      THEN Outcome(self, files, "UnpicklingError", cache_key, "data",
                   FALSE, FALSE, cached.error, "")
      ELSE IF self.use_cache /\ cached.value # None
      THEN Outcome([self EXCEPT !.data_df = cached.value], files, "",
                   cache_key, "data", TRUE, FALSE, cached.error, "")
      ELSE IF Suffix(file_path) \notin SupportedSuffixes
      THEN Outcome(self, files, "ValueError", cache_key, "data",
                   FALSE, FALSE, cached.error, "")
      ELSE
        LET df == ReadTable(fsys, file_path)
            written == WriteBack(self, files, cache_key, df, "data", io)
        IN Outcome([self EXCEPT !.data_df = df], written.files,
                   IF written.raised THEN "PicklingError" ELSE "",
                   cache_key, "data", FALSE, TRUE, cached.error,
                   written.error)

\* load_text_column that takes an unknown column for an empty one
LoadTextColumnUnchecked(self, files, column_name) ==
    IF self.data_df = None
    THEN Outcome(self, files, "ValueError", NoKey, "", FALSE, FALSE, "", "")
    ELSE IF column_name \notin Range(self.data_df.columns)
    THEN Outcome([self EXCEPT !.text_data = << >>],
                 files, "", NoKey, "", FALSE, FALSE, "", "")
    ELSE Outcome([self EXCEPT
                    !.text_data = DropNa(Column(self.data_df, column_name))],
                 files, "", NoKey, "", FALSE, FALSE, "", "")

\* load_text_column that keeps the missing cells
LoadTextColumnKeepsNa(self, files, column_name) ==
    IF self.data_df = None
    THEN Outcome(self, files, "ValueError", NoKey, "", FALSE, FALSE, "", "")
    ELSE IF column_name \notin Range(self.data_df.columns)
    THEN Outcome(self, files, "ValueError", NoKey, "", FALSE, FALSE, "", "")
    ELSE Outcome([self EXCEPT !.text_data = Column(self.data_df, column_name)],
                 files, "", NoKey, "", FALSE, FALSE, "", "")

LoadTextColumn(self, files, column_name) ==
    IF self.data_df = None
    THEN Outcome(self, files, "ValueError", NoKey, "", FALSE, FALSE, "", "")
    ELSE IF column_name \notin Range(self.data_df.columns)
    THEN Outcome(self, files, "ValueError", NoKey, "", FALSE, FALSE, "", "")
    ELSE Outcome([self EXCEPT
                    !.text_data = DropNa(Column(self.data_df, column_name))],
                 files, "", NoKey, "", FALSE, FALSE, "", "")

\* results[stage] = value
Put(self, stage, value) ==
    [self EXCEPT !.results = (stage :> value) @@ self.results]

\* an envelope that computes again although the cache holds the value
CachedStageRecomputing(self, files, stage, cache_key, fresh, io) ==
    LET cached == Lookup(self, files, cache_key, "nlp") IN
    IF cached.raised
    THEN Outcome(self, files, "UnpicklingError", cache_key, "nlp",
                 FALSE, FALSE, cached.error, "")
    ELSE IF ~AllStr(self.text_data)
    THEN Outcome(self, files, "TypeError", cache_key, "nlp",
                 FALSE, TRUE, cached.error, "")
    ELSE
      LET written == WriteBack(self, files, cache_key, fresh, "nlp", io)
      IN Outcome(Put(self, stage, fresh), written.files,
                 IF written.raised THEN "PicklingError" ELSE "",
                 cache_key, "nlp", FALSE, TRUE, cached.error, written.error)

\* an envelope that computes and does not write back
CachedStageForgetful(self, files, stage, cache_key, fresh, io) ==
    LET cached == Lookup(self, files, cache_key, "nlp") IN
    IF cached.raised
    THEN Outcome(self, files, "UnpicklingError", cache_key, "nlp",
                 FALSE, FALSE, cached.error, "")
    ELSE IF self.use_cache /\ cached.value # None
    THEN Outcome(Put(self, stage, cached.value), files, "", cache_key, "nlp",
                 TRUE, FALSE, cached.error, "")
    ELSE IF ~AllStr(self.text_data)
    THEN Outcome(self, files, "TypeError", cache_key, "nlp",
                 FALSE, TRUE, cached.error, "")
    ELSE Outcome(Put(self, stage, fresh), files, "", cache_key, "nlp",
                 FALSE, TRUE, cached.error, "")

\* the envelope analyze_sentiment and extract_entities share: look the
\* corpus up under its key, else compute, store in results and write back
CachedStage(self, files, stage, cache_key, fresh, io) ==
    LET cached == Lookup(self, files, cache_key, "nlp") IN
    IF cached.raised
    THEN Outcome(self, files, "UnpicklingError", cache_key, "nlp",
                 FALSE, FALSE, cached.error, "")
    ELSE IF self.use_cache /\ cached.value # None
    THEN Outcome(Put(self, stage, cached.value), files, "", cache_key, "nlp",
                 TRUE, FALSE, cached.error, "")
    ELSE IF ~AllStr(self.text_data)
    THEN Outcome(self, files, "TypeError", cache_key, "nlp",
                 FALSE, TRUE, cached.error, "")
    ELSE
      LET written == WriteBack(self, files, cache_key, fresh, "nlp", io)
      IN Outcome(Put(self, stage, fresh), written.files,
                 IF written.raised THEN "PicklingError" ELSE "",
                 cache_key, "nlp", FALSE, TRUE, cached.error, written.error)

\* analyze_sentiment that keys its result by the first entry of the corpus
AnalyzeSentimentKeyedByFirst(self, files, fsys, io) ==
    IF self.text_data = << >>
    THEN Outcome(self, files, "", NoKey, "nlp", FALSE, FALSE, "", "")
    ELSE CachedStage(self, files, "sentiment",
            IF self.use_cache
            THEN GenerateKey(Str(StrOfList(<<self.text_data[1]>>)), fsys,
                             ThisProcess)
            ELSE NoKey,
            SentimentResults(self.text_data), io)

AnalyzeSentiment(self, files, fsys, io) ==
    IF self.text_data = << >>
    THEN Outcome(self, files, "", NoKey, "nlp", FALSE, FALSE, "", "")
    ELSE CachedStage(self, files, "sentiment",
            IF self.use_cache
            THEN GenerateKey(Str(StrOfList(self.text_data)), fsys, ThisProcess)
            ELSE NoKey,
            SentimentResults(self.text_data), io)

\* extract_entities keyed by the corpus alone
ExtractEntitiesUnsuffixed(self, files, fsys, io) ==
    IF self.text_data = << >>
    THEN Outcome(self, files, "", NoKey, "nlp", FALSE, FALSE, "", "")
    ELSE CachedStage(self, files, "entities",
            IF self.use_cache
            THEN GenerateKey(Str(StrOfList(self.text_data)), fsys, ThisProcess)
            ELSE NoKey,
            NlpExtractEntities(self.text_data), io)

ExtractEntities(self, files, fsys, io) ==
    IF self.text_data = << >>
    THEN Outcome(self, files, "", NoKey, "nlp", FALSE, FALSE, "", "")
    ELSE CachedStage(self, files, "entities",
            IF self.use_cache
            THEN GenerateKey(
                   Str(StrOfList(self.text_data) \o <<"_entities">>), fsys,
                   ThisProcess)
            ELSE NoKey,
            NlpExtractEntities(self.text_data), io)

\* extract_keywords consults no cache
ExtractKeywords(self, files, method, top_n) ==
    IF self.text_data = << >>
    THEN Outcome(self, files, "", NoKey, "", FALSE, FALSE, "", "")
    ELSE IF ~AllStr(self.text_data)
    THEN Outcome(self, files, "TypeError", NoKey, "", FALSE, TRUE, "", "")
    ELSE Outcome(Put(self, "keywords",
                     [kind |-> "keywords", method |-> method,
                      keywords |-> NlpExtractKeywords(self.text_data,
                                                      method, top_n)]),
                 files, "", NoKey, "", FALSE, TRUE, "", "")

\* what a method that uses no cache did
Plain(self, files, raised, computed) ==
    Outcome(self, files, raised, NoKey, "", FALSE, computed, "", "")

\* select_dtypes(include=[np.number]): a column of numbers and missing
\* values only
IsNumericColumn(df, c) ==
    \A i \in 1..Len(df.rows) : df.rows[i][c].kind \in {"int", "nan"}

NumericColumns(df) ==
    SelectSeq(df.columns, LAMBDA c : IsNumericColumn(df, c))

\* analyze_data that leaves an empty entry when it has nothing to analyse
AnalyzeDataEmptyEntry(self, files) ==
    IF self.data_df = None \/ NumericColumns(self.data_df) = << >>
    THEN Plain(Put(self, "data_statistics",
                   [kind |-> "data_statistics", stats |-> << >>]),
               files, "", FALSE)
    ELSE Plain(Put(self, "data_statistics",
                   [kind |-> "data_statistics",
                    stats |-> [j \in 1..Len(NumericColumns(self.data_df)) |->
                                 [column |-> NumericColumns(self.data_df)[j],
                                  of |-> Column(self.data_df,
                                           NumericColumns(self.data_df)[j])]]]),
               files, "", TRUE)

\* analyze_data
AnalyzeData(self, files) ==
    IF self.data_df = None
    THEN Plain(self, files, "", FALSE)
    ELSE IF NumericColumns(self.data_df) = << >>
    THEN Plain(self, files, "", FALSE)
    ELSE Plain(Put(self, "data_statistics",
                   [kind |-> "data_statistics",
                    stats |-> [j \in 1..Len(NumericColumns(self.data_df)) |->
                                 [column |-> NumericColumns(self.data_df)[j],
                                  of |-> Column(self.data_df,
                                           NumericColumns(self.data_df)[j])]]]),
               files, "", TRUE)

\* a text stage that runs its collaborator on an empty corpus too
TextStageUnguarded(self, files, stage, error) ==
    IF ~AllStr(self.text_data)
    THEN Plain(self, files, error, TRUE)
    ELSE Plain(Put(self, stage, [kind |-> stage, texts |-> self.text_data]),
               files, "", TRUE)

\* the form analyze_text, detect_topics and analyze_complexity share with
\* extract_keywords: nothing to do without text, else the collaborator's
\* value (or exception, on an entry that is not a str) for the corpus
TextStage(self, files, stage, error) ==
    IF self.text_data = << >>
    THEN Plain(self, files, "", FALSE)
    ELSE IF ~AllStr(self.text_data)
    THEN Plain(self, files, error, TRUE)
    ELSE Plain(Put(self, stage, [kind |-> stage, texts |-> self.text_data]),
               files, "", TRUE)

\* analyze_text: ' '.join(self.text_data) and the word counts
AnalyzeText(self, files) == TextStage(self, files, "text_statistics", "TypeError")

\* detect_topics: AdvancedNLP.detect_topics
DetectTopics(self, files) == TextStage(self, files, "topics", "AttributeError")

\* analyze_complexity: AdvancedNLP.analyze_text_complexity
AnalyzeComplexity(self, files) == TextStage(self, files, "complexity", "TypeError")

\* np.corrcoef of two sequences of numbers
Pearson(xs, ys) == [kind |-> "pearson", xs |-> xs, ys |-> ys]

\* correlate_sentiment_with_column
CorrelateSentimentWithColumn(self, files, column_name) ==
    IF "sentiment" \notin DOMAIN self.results
    THEN Plain(self, files, "", FALSE)
    ELSE IF self.data_df = None
    THEN Plain(self, files, "", FALSE)
    ELSE IF column_name \notin Range(self.data_df.columns)
    THEN Plain(self, files, "", FALSE)
    ELSE
      LET sentiments == self.results["sentiment"].sentiments
          polarities == [i \in 1..Len(sentiments) |-> sentiments[i].polarity]
          name == "sentiment_" \o column_name
          before == IF "correlations" \in DOMAIN self.results
                    THEN self.results["correlations"] ELSE << >>
      IN
      IF Len(polarities) # Len(self.data_df.rows)
      THEN Plain(self, files, "", FALSE)
      ELSE IF ~IsNumericColumn(self.data_df, column_name)
      THEN Plain(self, files, "TypeError", TRUE)
      ELSE Plain(Put(self, "correlations",
                     (name :> [column |-> column_name,
                               correlation |->
                                   Pearson(Column(self.data_df, column_name),
                                           polarities),
                               type |-> "sentiment_polarity"]) @@ before),
                 files, "", TRUE)

\* len(text.split()) of a text entry
WordCount(text) == Len(text.s)

\* correlate_data_with_text_length
CorrelateDataWithTextLength(self, files, data_column) ==
    IF self.data_df = None \/ self.text_data = << >>
    THEN Plain(self, files, "", FALSE)
    ELSE IF data_column \notin Range(self.data_df.columns)
    THEN Plain(self, files, "", FALSE)
    ELSE IF ~AllStr(self.text_data)
    THEN Plain(self, files, "AttributeError", TRUE)
    ELSE IF Len(self.text_data) # Len(self.data_df.rows)
    THEN Plain(self, files, "", FALSE)
    ELSE IF ~IsNumericColumn(self.data_df, data_column)
    THEN Plain(self, files, "TypeError", TRUE)
    ELSE Plain(Put(self, "correlation",
                   [column |-> data_column,
                    correlation_with_text_length |->
                        Pearson(Column(self.data_df, data_column),
                                [i \in 1..Len(self.text_data) |->
                                   WordCount(self.text_data[i])])]),
               files, "", TRUE)

\* export_results.categorize_sentiment
CategorizeSentiment(polarity) ==
    IF polarity > PolarityThreshold THEN "Positive"
    ELSE IF polarity < 0 - PolarityThreshold THEN "Negative"
    ELSE "Neutral"

\* results_df[name] = values: a new column, one value for each row
WithColumn(df, name, values) ==
    [df EXCEPT !.columns = Append(df.columns, name),
               !.rows = [i \in 1..Len(df.rows) |->
                           (name :> values[i]) @@ df.rows[i]]]

\* the three sentiment columns of results_df
WithSentiment(df, sentiments) ==
    LET n == Len(sentiments)
        polarity == WithColumn(df, "sentiment_polarity",
                        [i \in 1..n |-> Num(sentiments[i].polarity)])
        subjectivity == WithColumn(polarity, "sentiment_subjectivity",
                            [i \in 1..n |-> Num(sentiments[i].subjectivity)])
    IN WithColumn(subjectivity, "sentiment_category",
           [i \in 1..n |->
              Str(<<CategorizeSentiment(sentiments[i].polarity)>>)])

ExportFormats == {"csv", "json", "excel"}

\* the file export_results writes, by format
ResultsPath(format) ==
    <<"output/", "results",
      CASE format = "csv" -> ".csv"
        [] format = "json" -> ".json"
        [] OTHER -> ".xlsx">>

\* export_results into the directory output: the pipeline's outcome and
\* the input files with results_df written, at the time now
ExportResults(self, files, fsys, format, now) ==
    LET has_sentiment == "sentiment" \in DOMAIN self.results
        sentiments == self.results["sentiment"].sentiments
        with_sentiment == IF has_sentiment
                          THEN WithSentiment(self.data_df, sentiments)
                          ELSE self.data_df
        results_df == IF self.text_data = << >> THEN with_sentiment
                      ELSE WithColumn(with_sentiment, "text_word_count",
                               [i \in 1..Len(self.text_data) |->
                                  Num(WordCount(self.text_data[i]))])
    IN
    IF self.data_df = None
    THEN [out |-> Plain(self, files, "", FALSE), fsys |-> fsys]
    ELSE IF has_sentiment /\ Len(sentiments) # Len(self.data_df.rows)
    THEN [out |-> Plain(self, files, "ValueError", FALSE), fsys |-> fsys]
    ELSE IF ~AllStr(self.text_data)
    THEN [out |-> Plain(self, files, "AttributeError", FALSE), fsys |-> fsys]
    ELSE IF self.text_data # << >>
              /\ Len(self.text_data) # Len(self.data_df.rows)
    THEN [out |-> Plain(self, files, "ValueError", FALSE), fsys |-> fsys]
    ELSE IF format \notin ExportFormats
    THEN [out |-> Plain(self, files, "", FALSE), fsys |-> fsys]
    ELSE [out |-> Plain(self, files, "", TRUE),
          fsys |-> (ResultsPath(format) :> File(now, results_df)) @@ fsys]

\* UnifiedPipeline.__init__; CacheManager() on the existing root removes
\* nothing
NewSelf(cache) ==
    [data_df |-> None, text_data |-> << >>, results |-> << >>,
     use_cache |-> cache]

----------------------------------------------------------------------------
(* The pipeline's operations as actions *)

MaxEdits == 1

TopN == 10

\* the names the table file of a run may have
TableNames == {PlainCsv, BracketCsv}

\* the paths load_structured_data is called with
Paths(fsys) == DOMAIN fsys \cup {MissingCsv}

ColumnNames == {"review", "text"}

\* the call made last: a pipeline method, with its argument and outcome,
\* and whether the call before it was a call of the same method
Step(op, arg, out) ==
    [op |-> op, arg |-> arg, again |-> (last.op = op),
     key |-> out.key, category |-> out.category,
     raised |-> out.raised, hit |-> out.hit, computed |-> out.computed,
     get_error |-> out.get_error, set_error |-> out.set_error]

Becomes(out) ==
    /\ data_df' = out.self.data_df
    /\ text_data' = out.self.text_data
    /\ results' = out.self.results
    /\ use_cache' = out.self.use_cache
    /\ cache_files' = out.files

DoLoadStructuredData(file_path, io) ==
    \E out \in {LoadStructuredData(Self, cache_files, fs, file_path, io)} :
    /\ Becomes(out)
    /\ last' = Step("load_structured_data", Str(file_path), out)
    /\ UNCHANGED <<fs, clock, writers>>

DoLoadTextColumn(column_name) ==
    \E out \in {LoadTextColumn(Self, cache_files, column_name)} :
    /\ Becomes(out)
    /\ last' = Step("load_text_column", Str(<<column_name>>), out)
    /\ UNCHANGED <<fs, clock, writers>>

DoAnalyzeSentiment(io) ==
    \E out \in {AnalyzeSentiment(Self, cache_files, fs, io)} :
    /\ Becomes(out)
    /\ last' = Step("analyze_sentiment", None, out)
    /\ UNCHANGED <<fs, clock, writers>>

DoExtractEntities(io) ==
    \E out \in {ExtractEntities(Self, cache_files, fs, io)} :
    /\ Becomes(out)
    /\ last' = Step("extract_entities", None, out)
    /\ UNCHANGED <<fs, clock, writers>>

DoExtractKeywords(method) ==
    \E out \in {ExtractKeywords(Self, cache_files, method, TopN)} :
    /\ Becomes(out)
    /\ last' = Step("extract_keywords", Str(<<method>>), out)
    /\ UNCHANGED <<fs, clock, writers>>

\* a new UnifiedPipeline(use_cache=cache) over the same cache root
\* a constructor whose store starts from an empty cache root
NewPipelineOnEmptyRoot(cache) ==
    \E out \in {Outcome(NewSelf(cache), << >>, "", NoKey, "",
                        FALSE, FALSE, "", "")} :
    /\ Becomes(out)
    /\ last' = Step("__init__", Bool(cache), out)
    /\ UNCHANGED <<fs, clock, writers>>

NewPipeline(cache) ==
    \E out \in {Outcome(NewSelf(cache), cache_files, "", NoKey, "",
                        FALSE, FALSE, "", "")} :
    /\ Becomes(out)
    /\ last' = Step("__init__", Bool(cache), out)
    /\ UNCHANGED <<fs, clock, writers>>

\* the user edits an input file: new content, new modification time
EditFile(file_path, doc) ==
    /\ clock < MaxEdits
    /\ FsExists(fs, file_path)
    /\ fs[file_path].doc # doc
    /\ clock' = clock + 1
    /\ fs' = [fs EXCEPT ![file_path] = File(clock + 1, doc)]
    /\ last' = Step("edit", Str(file_path),
                    Outcome(Self, cache_files, "", NoKey, "",
                            FALSE, FALSE, "", ""))
    /\ UNCHANGED <<cache_files, pipeline_vars, writers>>

\* an empty cache root, a new pipeline, and a directory holding one table
\* file and one text file
Init ==
    /\ cache_files = << >>
    /\ \E table \in TableNames :
          fs = (table :> File(0, ReviewsV1)) @@ (NotesTxt :> File(0, ReviewsV1))
    /\ clock = 0
    /\ writers = << >>
    /\ data_df = None
    /\ text_data = << >>
    /\ results = << >>
    /\ use_cache = TRUE
    /\ last = [op |-> "__init__", arg |-> Bool(TRUE), again |-> FALSE,
               key |-> NoKey, category |-> "", raised |-> "", hit |-> FALSE,
               computed |-> FALSE, get_error |-> "", set_error |-> ""]

Next ==
    \/ \E file_path \in Paths(fs), io \in IoOutcomes :
          DoLoadStructuredData(file_path, io)
    \/ \E column_name \in ColumnNames : DoLoadTextColumn(column_name)
    \/ \E io \in IoOutcomes : DoAnalyzeSentiment(io)
    \/ \E io \in IoOutcomes : DoExtractEntities(io)
    \/ \E method \in {"tfidf"} : DoExtractKeywords(method)
    \/ \E cache \in BOOLEAN : NewPipeline(cache)
    \/ \E file_path \in TableNames, doc \in {ReviewsV1, ReviewsV2} :
          EditFile(file_path, doc)
    \/ \E c \in {"", "data", "nlp"} : CacheClear(c)

Spec == Init /\ [][Next]_vars

----------------------------------------------------------------------------
(* _generate_key as a function of its argument, the files and the process *)

Scores(a, b) ==
    [kind |-> "DataFrame", columns |-> <<"rating", "score">>,
     rows |-> <<[rating |-> Num(a), score |-> Num(b)],
                [rating |-> Num(b), score |-> Num(a)]>>]

\* tables of numbers only and tables with a text column, in pairs that
\* differ in one cell
KeyTables == {Scores(4, 1), Scores(4, 2), ReviewsV1, ReviewsV2}

Great == Str(<<"great">>)

Bad == Str(<<"bad">>)

Fine == Str(<<"fine">>)

\* lists of text entries that differ in one entry or in their order
KeyLists == {List(<<Great, Bad>>), List(<<Bad, Great>>), List(<<Great, Fine>>)}

\* the text "<path>_<mtime>" for the first modification time of a file
Stamped(path) == path \o <<"_">> \o FloatStr(0)

\* strings: the paths of the files and of no file, texts that are no path
\* (those of test_cache_invalidation_on_change among them), and the str of
\* a list
KeyStrings(fsys) ==
    {Str(path) : path \in DOMAIN fsys \cup {MissingCsv}}
      \cup {Str(Stamped(path)) : path \in TableNames}
      \cup {Str(<<"original data">>), Str(<<"modified data">>),
            Str(StrOfList(<<Great, Bad>>))}

KeyInputs(fsys) == KeyTables \cup KeyLists \cup KeyStrings(fsys)

\* a call of _generate_key in a process with the given memory layout, and
\* the call of _generate_key made just before it, if any
GenerateKeyCall(data, heap) ==
    /\ last' = [op |-> "_generate_key", arg |-> data, heap |-> heap,
                key |-> GenerateKey(data, fs, heap),
                again |-> (last.op = "_generate_key"),
                before |-> IF last.op = "_generate_key"
                           THEN [arg |-> last.arg, key |-> last.key,
                                 heap |-> last.heap]
                           ELSE [arg |-> None, key |-> NoKey, heap |-> ""]]
    /\ UNCHANGED <<cache_files, fs, clock, writers, pipeline_vars>>

KeyNext ==
    \/ \E data \in KeyInputs(fs), heap \in AddressSpaces :
          GenerateKeyCall(data, heap)
    \/ \E file_path \in TableNames, doc \in {ReviewsV1, ReviewsV2} :
          EditFile(file_path, doc)

KeySpec == Init /\ [][KeyNext]_vars

----------------------------------------------------------------------------
(* The analysis stages and the correlations, over a table with an empty   *)
(* column and a table without a numeric column                             *)

SurveyRow(rating, score, review) ==
    [rating |-> Num(rating), score |-> score, review |-> Str(<<review>>),
     blank |-> NaN]

\* ratings, scores with one missing, reviews, and a column that is empty
Survey ==
    [kind |-> "DataFrame", columns |-> <<"rating", "score", "review", "blank">>,
     rows |-> <<SurveyRow(4, Num(3), "great"), SurveyRow(1, NaN, "bad")>>]

\* a table of text only (test_no_numeric_columns), its last row without
\* a review
TextOnly ==
    [kind |-> "DataFrame", columns |-> <<"review">>,
     rows |-> <<[review |-> Great], [review |-> Bad], [review |-> NaN]>>]

StageTables == {Survey, TextOnly}

\* the column names load_text_column is called with; "text" is no column
StageColumns == {"rating", "score", "review", "blank", "text"}

\* the column names the correlations are called with
CorrelateColumns == {"rating", "review", "text"}

DoAnalyzeData ==
    \E out \in {AnalyzeData(Self, cache_files)} :
    /\ Becomes(out)
    /\ last' = Step("analyze_data", None, out)
    /\ UNCHANGED <<fs, clock, writers>>

DoAnalyzeText ==
    \E out \in {AnalyzeText(Self, cache_files)} :
    /\ Becomes(out)
    /\ last' = Step("analyze_text", None, out)
    /\ UNCHANGED <<fs, clock, writers>>

DoDetectTopics ==
    \E out \in {DetectTopics(Self, cache_files)} :
    /\ Becomes(out)
    /\ last' = Step("detect_topics", None, out)
    /\ UNCHANGED <<fs, clock, writers>>

DoAnalyzeComplexity ==
    \E out \in {AnalyzeComplexity(Self, cache_files)} :
    /\ Becomes(out)
    /\ last' = Step("analyze_complexity", None, out)
    /\ UNCHANGED <<fs, clock, writers>>

DoCorrelateSentimentWithColumn(column_name) ==
    \E out \in {CorrelateSentimentWithColumn(Self, cache_files, column_name)} :
    /\ Becomes(out)
    /\ last' = Step("correlate_sentiment_with_column", Str(<<column_name>>),
                    out)
    /\ UNCHANGED <<fs, clock, writers>>

DoCorrelateDataWithTextLength(data_column) ==
    \E out \in {CorrelateDataWithTextLength(Self, cache_files, data_column)} :
    /\ Becomes(out)
    /\ last' = Step("correlate_data_with_text_length", Str(<<data_column>>),
                    out)
    /\ UNCHANGED <<fs, clock, writers>>

StageInit ==
    /\ cache_files = << >>
    /\ \E doc \in StageTables : fs = (PlainCsv :> File(0, doc))
    /\ clock = 0
    /\ writers = << >>
    /\ data_df = None
    /\ text_data = << >>
    /\ results = << >>
    /\ use_cache = TRUE
    /\ last = [op |-> "__init__", arg |-> Bool(TRUE), again |-> FALSE,
               key |-> NoKey, category |-> "", raised |-> "", hit |-> FALSE,
               computed |-> FALSE, get_error |-> "", set_error |-> ""]

\* the number of entries of results a pipeline object is followed to
MaxResults == 2

\* the step leaves at most MaxResults entries in results
Within == Cardinality(DOMAIN results') <= MaxResults

StageNext ==
    \/ \E file_path \in Paths(fs) : DoLoadStructuredData(file_path, "ok")
    \/ \E column_name \in StageColumns : DoLoadTextColumn(column_name)
    \/ DoAnalyzeData /\ Within
    \/ DoAnalyzeText /\ Within
    \/ DoAnalyzeSentiment("ok") /\ Within
    \/ DoExtractEntities("ok") /\ Within
    \/ DoExtractKeywords("tfidf") /\ Within
    \/ DoDetectTopics /\ Within
    \/ DoAnalyzeComplexity /\ Within
    \/ \E column_name \in CorrelateColumns :
          DoCorrelateSentimentWithColumn(column_name) /\ Within
    \/ \E data_column \in CorrelateColumns :
          DoCorrelateDataWithTextLength(data_column) /\ Within
    \/ \E cache \in BOOLEAN : NewPipeline(cache)

StageSpec == StageInit /\ [][StageNext]_vars

----------------------------------------------------------------------------
(* cli.run_pipeline: one run of the command line over the table file, for  *)
(* the arguments that leave --clean, --visualize, --export, --all and      *)
(* --text-file unset and --output at its default                           *)

\* the flags of the analysis stages, by the method each one asks for
StageFlags ==
    {"analyze_data", "analyze_text", "analyze_sentiment", "extract_entities",
     "extract_keywords", "detect_topics", "analyze_complexity"}

\* the number of stage flags given on one command line
MaxFlags == 1

\* top_n of the extract_keywords call of run_pipeline
CliTopN == 15

\* the calls run_pipeline makes on the pipeline before the report, in order
CliSteps ==
    <<"load_structured_data", "load_text_column", "analyze_data",
      "analyze_text", "analyze_sentiment", "correlate_sentiment_with_column",
      "extract_entities", "extract_keywords", "detect_topics",
      "analyze_complexity", "correlate_data_with_text_length">>

\* the stages whose call is behind "if pipeline.text_data"
NeedText ==
    (StageFlags \ {"analyze_data"})
        \cup {"correlate_sentiment_with_column",
              "correlate_data_with_text_length"}

\* the arguments ask for the step
Requested(args, step) ==
    CASE step = "load_structured_data" -> TRUE
      [] step = "load_text_column" -> args.text_column # ""
      [] step = "correlate_sentiment_with_column" ->
             "analyze_sentiment" \in args.flags /\ args.correlate # ""
      [] step = "correlate_data_with_text_length" -> args.correlate # ""
      [] OTHER -> step \in args.flags

\* the call of one step on the pipeline object
CliCall(args, self, files, fsys, step) ==
    CASE step = "load_structured_data" ->
             LoadStructuredData(self, files, fsys, args.data_file, "ok")
      [] step = "load_text_column" ->
             LoadTextColumn(self, files, args.text_column)
      [] step = "analyze_data" -> AnalyzeData(self, files)
      [] step = "analyze_text" -> AnalyzeText(self, files)
      [] step = "analyze_sentiment" -> AnalyzeSentiment(self, files, fsys, "ok")
      [] step = "correlate_sentiment_with_column" ->
             CorrelateSentimentWithColumn(self, files, args.correlate)
      [] step = "extract_entities" -> ExtractEntities(self, files, fsys, "ok")
      [] step = "extract_keywords" ->
             ExtractKeywords(self, files, "tfidf", CliTopN)
      [] step = "detect_topics" -> DetectTopics(self, files)
      [] step = "analyze_complexity" -> AnalyzeComplexity(self, files)
      [] OTHER -> CorrelateDataWithTextLength(self, files, args.correlate)

\* the run after a call of the step: a call that raises ends the body
After(run, step, out) ==
    IF out.raised # ""
    THEN [run EXCEPT !.self = out.self, !.files = out.files,
                     !.failed = step, !.raised = out.raised]
    ELSE [run EXCEPT !.self = out.self, !.files = out.files,
                     !.ran = run.ran \cup {step}]

\* the body of the try block from step i on: a step that is not asked for,
\* or whose text is missing, is passed over
RECURSIVE RunFrom(_, _, _, _)
RunFrom(args, fsys, run, i) ==
    IF i > Len(CliSteps) \/ run.raised # "" THEN run
    ELSE IF ~Requested(args, CliSteps[i])
              \/ (CliSteps[i] \in NeedText /\ run.self.text_data = << >>)
    THEN RunFrom(args, fsys, run, i + 1)
    ELSE RunFrom(args, fsys,
                 After(run, CliSteps[i],
                       CliCall(args, run.self, run.files, fsys, CliSteps[i])),
                 i + 1)

\* the order of the sections of generate_report
ReportSections ==
    <<"data_statistics", "text_statistics", "sentiment", "entities",
      "keywords", "topics", "complexity", "correlation">>

\* generate_report: one section for each of these entries of results
GenerateReport(self) ==
    SelectSeq(ReportSections, LAMBDA section : section \in DOMAIN self.results)

\* the pipeline a run starts with: UnifiedPipeline(), the cache enabled
NewRun(files) ==
    [self |-> NewSelf(TRUE), files |-> files, ran |-> {}, failed |-> "",
     raised |-> ""]

\* the try block of run_pipeline(args) up to the report: without a data
\* file the run ends with sys.exit(1) at once
RunPipeline(args, files, fsys) ==
    IF args.data_file = << >>
    THEN [NewRun(files) EXCEPT !.failed = "sys.exit", !.raised = "SystemExit"]
    ELSE RunFrom(args, fsys, NewRun(files), 1)

\* the command lines: the table file, a file that does not exist or no
\* file; no text column, the reviews or the ratings; at most MaxFlags
\* stage flags; --correlate with the ratings or not given
CliArgs ==
    {[data_file |-> d, text_column |-> t, flags |-> f, correlate |-> c] :
        d \in {PlainCsv, MissingCsv, << >>},
        t \in {"", "review", "rating"},
        f \in {g \in SUBSET StageFlags : Cardinality(g) <= MaxFlags},
        c \in {"", "rating"}}

\* one run: the report is generated and saved only when no call has
\* raised; any exception ends the run with sys.exit(1)
DoRunPipeline(args) ==
    \E run \in {RunPipeline(args, cache_files, fs)} :
    /\ data_df' = run.self.data_df
    /\ text_data' = run.self.text_data
    /\ results' = run.self.results
    /\ use_cache' = run.self.use_cache
    /\ cache_files' = run.files
    /\ last' = [op |-> "run_pipeline", arg |-> args,
                ran |-> run.ran, failed |-> run.failed,
                raised |-> run.raised,
                exit |-> IF run.raised = "" THEN 0 ELSE 1,
                generated |-> (run.raised = ""),
                report |-> IF run.raised = "" THEN GenerateReport(run.self)
                           ELSE << >>]
    /\ UNCHANGED <<fs, clock, writers>>

\* an empty cache root and a directory holding the table file
CliInit ==
    /\ cache_files = << >>
    /\ fs = (PlainCsv :> File(0, Survey))
    /\ clock = 0
    /\ writers = << >>
    /\ data_df = None
    /\ text_data = << >>
    /\ results = << >>
    /\ use_cache = TRUE
    /\ last = [op |-> "__init__", arg |-> Bool(TRUE), again |-> FALSE,
               key |-> NoKey, category |-> "", raised |-> "", hit |-> FALSE,
               computed |-> FALSE, get_error |-> "", set_error |-> ""]

CliNext == \E args \in CliArgs : DoRunPipeline(args)

CliSpec == CliInit /\ [][CliNext]_vars

----------------------------------------------------------------------------
(* Loading over a directory whose files may be removed *)

\* the user removes an input file
RemoveFile(file_path) ==
    /\ FsExists(fs, file_path)
    /\ fs' = [p \in (DOMAIN fs) \ {file_path} |-> fs[p]]
    /\ last' = Step("remove", Str(file_path),
                    Outcome(Self, cache_files, "", NoKey, "",
                            FALSE, FALSE, "", ""))
    /\ UNCHANGED <<cache_files, clock, writers, pipeline_vars>>

\* the paths load_structured_data is called with: the table file of the
\* run under its name, the other names, and the text file
LoadPaths == TableNames \cup {NotesTxt, MissingCsv}

LoadNext ==
    \/ \E file_path \in LoadPaths, io \in IoOutcomes :
          DoLoadStructuredData(file_path, io)
    \/ \E column_name \in ColumnNames : DoLoadTextColumn(column_name)
    \/ DoAnalyzeSentiment("ok")
    \/ \E cache \in BOOLEAN : NewPipeline(cache)
    \/ \E file_path \in TableNames : RemoveFile(file_path)

LoadSpec == Init /\ [][LoadNext]_vars

----------------------------------------------------------------------------
(* Text files, cleaning and batches. The pieces of a text of this part are *)
(* its words, the runs of characters that are not whitespace, and " " is   *)
(* a run of whitespace at an end of a line of a file                       *)

\* line.strip()
RECURSIVE Strip(_)
Strip(line) ==
    IF line = << >> THEN << >>
    ELSE IF Head(line) = " " THEN Strip(Tail(line))
    ELSE IF line[Len(line)] = " " THEN Strip(SubSeq(line, 1, Len(line) - 1))
    ELSE line

\* a text file: its lines, as content.split('\n') gives them
TextDoc(lines) == [kind |-> "text", lines |-> lines]

\* load_text_file that adds the lines of the file to the text it holds
LoadTextFileAppending(self, files, fsys, file_path) ==
    IF ~FsExists(fsys, file_path)
    THEN Plain(self, files, "FileNotFoundError", FALSE)
    ELSE
      LET lines == fsys[file_path].doc.lines
          stripped == [i \in 1..Len(lines) |-> Str(Strip(lines[i]))]
      IN Plain([self EXCEPT !.text_data =
                    self.text_data \o
                    SelectSeq(stripped, LAMBDA text : text.s # << >>)],
               files, "", FALSE)

\* load_text_file
LoadTextFile(self, files, fsys, file_path) ==
    IF ~FsExists(fsys, file_path)
    THEN Plain(self, files, "FileNotFoundError", FALSE)
    ELSE
      LET lines == fsys[file_path].doc.lines
          stripped == [i \in 1..Len(lines) |-> Str(Strip(lines[i]))]
      IN Plain([self EXCEPT !.text_data =
                    SelectSeq(stripped, LAMBDA text : text.s # << >>)],
               files, "", FALSE)

\* DataFrame.dropna(): the rows without a missing cell
DropNaRows(df) ==
    [df EXCEPT !.rows =
        SelectSeq(df.rows,
                  LAMBDA row : \A c \in Range(df.columns) : IsPresent(row[c]))]

\* DataFrame.fillna(0)
FillNa(df) ==
    [df EXCEPT !.rows =
        [i \in 1..Len(df.rows) |->
            [c \in DOMAIN df.rows[i] |->
                IF IsPresent(df.rows[i][c]) THEN df.rows[i][c] ELSE Num(0)]]]

\* the cell of column c that a forward fill puts in row i: the last cell
\* present at or above row i, and a missing cell when there is none
RECURSIVE LastPresent(_, _, _)
LastPresent(df, c, i) ==
    IF i = 0 THEN NaN
    ELSE IF IsPresent(df.rows[i][c]) THEN df.rows[i][c]
    ELSE LastPresent(df, c, i - 1)

\* DataFrame.fillna(method='ffill')
ForwardFill(df) ==
    [df EXCEPT !.rows =
        [i \in 1..Len(df.rows) |->
            [c \in DOMAIN df.rows[i] |-> LastPresent(df, c, i)]]]

\* DataFrame.drop_duplicates(): the first of equal rows is kept
RECURSIVE FirstOfEach(_)
FirstOfEach(rows) ==
    IF rows = << >> THEN << >>
    ELSE LET front == SubSeq(rows, 1, Len(rows) - 1)
             row == rows[Len(rows)]
         IN IF row \in Range(front) THEN FirstOfEach(front)
            ELSE Append(FirstOfEach(front), row)

DropDuplicates(df) == [df EXCEPT !.rows = FirstOfEach(df.rows)]

Strategies == {"drop", "fill", "forward_fill"}

\* clean_data
CleanData(self, files, strategy) ==
    IF self.data_df = None
    THEN Plain(self, files, "", FALSE)
    ELSE Plain([self EXCEPT !.data_df =
                   DropDuplicates(
                       CASE strategy = "drop" -> DropNaRows(self.data_df)
                         [] strategy = "fill" -> FillNa(self.data_df)
                         [] strategy = "forward_fill" ->
                                ForwardFill(self.data_df)
                         [] OTHER -> self.data_df)],
               files, "", FALSE)

\* what the three re.sub of clean_text leave of a word: nothing of a URL
\* or of an e-mail address, the letters and digits of any other word
CleanWord(word) ==
    CASE word \in {"http://x", "a@b"} -> ""
      [] word = "great!" -> "great"
      [] word = "!!" -> ""
      [] OTHER -> word

\* ' '.join(text.split()) of what is left of the words of a text
CleanEntry(text) ==
    Str(SelectSeq([i \in 1..Len(text.s) |-> CleanWord(text.s[i])],
                  LAMBDA word : word # ""))

\* clean_text that forgets the results computed from the text it replaces
CleanTextInvalidating(self, files) ==
    IF self.text_data = << >>
    THEN Plain(self, files, "", FALSE)
    ELSE IF ~AllStr(self.text_data)
    THEN Plain(self, files, "TypeError", FALSE)
    ELSE Plain([self EXCEPT !.results = << >>,
                            !.text_data =
                   SelectSeq([i \in 1..Len(self.text_data) |->
                                 CleanEntry(self.text_data[i])],
                             LAMBDA text : text.s # << >>)],
               files, "", FALSE)

\* clean_text that keeps the entries of which nothing is left
CleanTextKeepingEmpty(self, files) ==
    IF self.text_data = << >>
    THEN Plain(self, files, "", FALSE)
    ELSE IF ~AllStr(self.text_data)
    THEN Plain(self, files, "TypeError", FALSE)
    ELSE Plain([self EXCEPT !.text_data =
                   [i \in 1..Len(self.text_data) |->
                       CleanEntry(self.text_data[i])]],
               files, "", FALSE)

\* clean_text: re.sub raises on an entry that is not a str
CleanText(self, files) ==
    IF self.text_data = << >>
    THEN Plain(self, files, "", FALSE)
    ELSE IF ~AllStr(self.text_data)
    THEN Plain(self, files, "TypeError", FALSE)
    ELSE Plain([self EXCEPT !.text_data =
                   SelectSeq([i \in 1..Len(self.text_data) |->
                                 CleanEntry(self.text_data[i])],
                             LAMBDA text : text.s # << >>)],
               files, "", FALSE)

\* the calls process_batch makes for one file, in order
BatchSteps ==
    <<"load_structured_data", "load_text_column", "analyze_data",
      "analyze_text", "analyze_sentiment">>

BatchCall(step, self, files, fsys, file_path, text_column) ==
    CASE step = "load_structured_data" ->
             LoadStructuredData(self, files, fsys, file_path, "ok")
      [] step = "load_text_column" -> LoadTextColumn(self, files, text_column)
      [] step = "analyze_data" -> AnalyzeData(self, files)
      [] step = "analyze_text" -> AnalyzeText(self, files)
      [] OTHER -> AnalyzeSentiment(self, files, fsys, "ok")

\* the call has put its result into the pipeline
Produced(out) == out.raised = "" /\ (out.computed \/ out.hit)

\* the try block after a call of the step: the steps that have produced a
\* result so far, and the exception of the call that raised
AfterCall(run, step, out) ==
    [self |-> out.self, files |-> out.files, raised |-> out.raised,
     done |-> IF Produced(out) THEN run.done \cup {step} ELSE run.done]

\* the try block of process_batch for one file, from step i on
RECURSIVE FileFrom(_, _, _, _, _)
FileFrom(run, fsys, file_path, text_column, i) ==
    IF i > Len(BatchSteps) \/ run.raised # "" THEN run
    ELSE FileFrom(AfterCall(run, BatchSteps[i],
                            BatchCall(BatchSteps[i], run.self, run.files,
                                      fsys, file_path, text_column)),
                  fsys, file_path, text_column, i + 1)

\* a reset that leaves the results of the file before
ResetSelfKeepingResults(self) ==
    [self EXCEPT !.data_df = None, !.text_data = << >>]

\* the reset at the head of the loop body
ResetSelf(self) ==
    [self EXCEPT !.data_df = None, !.text_data = << >>, !.results = << >>]

\* the record appended for one file
FileRecord(file_path, run) ==
    IF run.raised = ""
    THEN [file |-> file_path, results |-> run.self.results]
    ELSE [file |-> file_path, error |-> run.raised]

\* the loop body's effect: the pipeline and the cache files as the file
\* left them, and one more record
AfterFile(batch, file_path, run) ==
    [self |-> run.self, files |-> run.files, done |-> run.done,
     all_results |-> Append(batch.all_results, FileRecord(file_path, run))]

\* a loop that the first file that fails ends
RECURSIVE BatchFromUntilError(_, _, _, _, _)
BatchFromUntilError(batch, fsys, file_paths, text_column, i) ==
    IF i > Len(file_paths) THEN batch
    ELSE IF i > 1 /\ "error" \in DOMAIN batch.all_results[i - 1] THEN batch
    ELSE BatchFromUntilError(
            AfterFile(batch, file_paths[i],
                      FileFrom([self |-> ResetSelf(batch.self),
                                files |-> batch.files, raised |-> "",
                                done |-> {}],
                               fsys, file_paths[i], text_column, 1)),
            fsys, file_paths, text_column, i + 1)

\* the loop of process_batch from file i on
RECURSIVE BatchFrom(_, _, _, _, _)
BatchFrom(batch, fsys, file_paths, text_column, i) ==
    IF i > Len(file_paths) THEN batch
    ELSE BatchFrom(
            AfterFile(batch, file_paths[i],
                      FileFrom([self |-> ResetSelf(batch.self),
                                files |-> batch.files, raised |-> "",
                                done |-> {}],
                               fsys, file_paths[i], text_column, 1)),
            fsys, file_paths, text_column, i + 1)

\* the dictionary process_batch returns
BatchSummary(file_paths, all_results) ==
    [total_files |-> Len(file_paths),
     successful |->
         Len(SelectSeq(all_results, LAMBDA r : "error" \notin DOMAIN r)),
     failed |-> Len(SelectSeq(all_results, LAMBDA r : "error" \in DOMAIN r)),
     results |-> all_results]

\* process_batch: the pipeline and the cache files after the loop, the
\* steps of the last file that produced a result, and the value returned
ProcessBatch(self, files, fsys, file_paths, text_column) ==
    BatchFrom([self |-> self, files |-> files, done |-> {},
               all_results |-> << >>],
              fsys, file_paths, text_column, 1)

\* a table whose second row is empty
Feedback ==
    DataFrame(<<[rating |-> Num(4), review |-> Str(<<"great!">>)],
                [rating |-> NaN, review |-> NaN]>>)

\* a text file with padded, empty and blank lines
Notes ==
    TextDoc(<< <<" ", "great!", " ">>, << >>, <<" ">>, <<"http://x">>,
               <<"bad", "a@b">> >>)

\* the longest list of files process_batch is called with
MaxBatch == 2

\* the lists of file paths of a batch
BatchLists ==
    UNION {[1..n -> {PlainCsv, BracketCsv, NotesTxt, MissingCsv}] :
              n \in 0..MaxBatch}

DoLoadTextFile(file_path) ==
    \E out \in {LoadTextFile(Self, cache_files, fs, file_path)} :
    /\ Becomes(out)
    /\ last' = Step("load_text_file", Str(file_path), out)
    /\ UNCHANGED <<fs, clock, writers>>

DoCleanData(strategy) ==
    \E out \in {CleanData(Self, cache_files, strategy)} :
    /\ Becomes(out)
    /\ last' = Step("clean_data", Str(<<strategy>>), out)
    /\ UNCHANGED <<fs, clock, writers>>

DoCleanText ==
    \E out \in {CleanText(Self, cache_files)} :
    /\ Becomes(out)
    /\ last' = Step("clean_text", None, out)
    /\ UNCHANGED <<fs, clock, writers>>

\* process_batch(file_paths, text_column): the call made last then also
\* tells the value returned and the steps of the last file that produced a
\* result
DoProcessBatch(file_paths, text_column) ==
    \E batch \in {ProcessBatch(Self, cache_files, fs, file_paths,
                               text_column)} :
    /\ Becomes(Plain(batch.self, batch.files, "", TRUE))
    /\ last' = [ret |-> BatchSummary(file_paths, batch.all_results),
                done |-> batch.done]
                 @@ Step("process_batch",
                         [file_paths |-> file_paths,
                          text_column |-> text_column],
                         Plain(batch.self, batch.files, "", TRUE))
    /\ UNCHANGED <<fs, clock, writers>>

\* an empty cache root, a new pipeline without a cache, and a directory
\* holding a table file and a text file
FlowInit ==
    /\ cache_files = << >>
    /\ fs = (PlainCsv :> File(0, Feedback)) @@ (NotesTxt :> File(0, Notes))
    /\ clock = 0
    /\ writers = << >>
    /\ data_df = None
    /\ text_data = << >>
    /\ results = << >>
    /\ use_cache = FALSE
    /\ last = [op |-> "__init__", arg |-> Bool(FALSE), again |-> FALSE,
               key |-> NoKey, category |-> "", raised |-> "", hit |-> FALSE,
               computed |-> FALSE, get_error |-> "", set_error |-> ""]

FlowNext ==
    \/ \E file_path \in {PlainCsv, MissingCsv} :
          DoLoadStructuredData(file_path, "ok")
    \/ \E column_name \in {"review", "text"} : DoLoadTextColumn(column_name)
    \/ \E file_path \in {NotesTxt, MissingCsv} : DoLoadTextFile(file_path)
    \/ \E strategy \in Strategies : DoCleanData(strategy)
    \/ DoCleanText
    \/ DoAnalyzeData
    \/ DoAnalyzeText
    \/ DoAnalyzeSentiment("ok")
    \/ \E file_path \in {PlainCsv, MissingCsv} :
          DoProcessBatch(<<file_path>>, "review")
    \/ NewPipeline(FALSE)

FlowSpec == FlowInit /\ [][FlowNext]_vars

\* batches over a directory holding two table files, the second without a
\* numeric column, and a text file, by a pipeline without a cache that may
\* hold a table, text and a result when the batch starts
BatchInit ==
    /\ cache_files = << >>
    /\ fs = (PlainCsv :> File(0, Feedback)) @@ (BracketCsv :> File(0, TextOnly))
              @@ (NotesTxt :> File(0, Notes))
    /\ clock = 0
    /\ writers = << >>
    /\ data_df = None
    /\ text_data = << >>
    /\ results = << >>
    /\ use_cache = FALSE
    /\ last = [op |-> "__init__", arg |-> Bool(FALSE), again |-> FALSE,
               key |-> NoKey, category |-> "", raised |-> "", hit |-> FALSE,
               computed |-> FALSE, get_error |-> "", set_error |-> ""]

BatchNext ==
    \/ \E file_paths \in BatchLists, text_column \in {"review", "rating", "text"} :
          DoProcessBatch(file_paths, text_column)
    \/ \E file_path \in {PlainCsv, BracketCsv} :
          DoLoadStructuredData(file_path, "ok")
    \/ DoLoadTextColumn("review")
    \/ DoAnalyzeSentiment("ok")
    \/ NewPipeline(FALSE)

BatchSpec == BatchInit /\ [][BatchNext]_vars

\* the number of rows of the table of a sentiment run
MaxTexts == 2

\* reviews on both sides of the thresholds and on them
Tones == {"great", "bad", "fair", "poor", "okay"}

\* the reviews a row may hold: a Tone, or nothing
Reviews == {Str(<<tone>>) : tone \in Tones} \cup {NaN}

\* the tables of one to MaxTexts rows, the ratings counting the rows
ToneTables ==
    {DataFrame([i \in 1..Len(reviews) |->
                  [rating |-> Num(i), review |-> reviews[i]]]) :
        reviews \in UNION {[1..n -> Reviews] : n \in 1..MaxTexts}}

DoExportResults(format) ==
    \E export \in {ExportResults(Self, cache_files, fs, format, clock)} :
    /\ Becomes(export.out)
    /\ fs' = export.fsys
    /\ last' = Step("export_results", Str(<<format>>), export.out)
    /\ UNCHANGED <<clock, writers>>

SentimentInit ==
    /\ cache_files = << >>
    /\ \E table \in ToneTables : fs = (PlainCsv :> File(0, table))
    /\ clock = 0
    /\ writers = << >>
    /\ data_df = None
    /\ text_data = << >>
    /\ results = << >>
    /\ use_cache = TRUE
    /\ last = [op |-> "__init__", arg |-> Bool(TRUE), again |-> FALSE,
               key |-> NoKey, category |-> "", raised |-> "", hit |-> FALSE,
               computed |-> FALSE, get_error |-> "", set_error |-> ""]

SentimentNext ==
    \/ DoLoadStructuredData(PlainCsv, "ok")
    \/ DoLoadTextColumn("review")
    \/ DoAnalyzeSentiment("ok")
    \/ \E format \in {"csv", "xml"} : DoExportResults(format)
    \/ NewPipeline(TRUE)

SentimentSpec == SentimentInit /\ [][SentimentNext]_vars

\* one cache root used for the corpora of two sources, the text column of
\* a table and a text file of three lines, each as loaded and as cleaned,
\* by pipelines that follow each other
CorpusInit ==
    /\ cache_files = << >>
    /\ fs = (PlainCsv :> File(0, Feedback)) @@ (NotesTxt :> File(0, Notes))
    /\ clock = 0
    /\ writers = << >>
    /\ data_df = None
    /\ text_data = << >>
    /\ results = << >>
    /\ use_cache = TRUE
    /\ last = [op |-> "__init__", arg |-> Bool(TRUE), again |-> FALSE,
               key |-> NoKey, category |-> "", raised |-> "", hit |-> FALSE,
               computed |-> FALSE, get_error |-> "", set_error |-> ""]

CorpusNext ==
    \/ DoLoadStructuredData(PlainCsv, "ok")
    \/ DoLoadTextColumn("review")
    \/ DoLoadTextFile(NotesTxt)
    \/ DoCleanText
    \/ \E io \in IoOutcomes : DoAnalyzeSentiment(io)
    \/ NewPipeline(TRUE)

CorpusSpec == CorpusInit /\ [][CorpusNext]_vars

----------------------------------------------------------------------------
(* Properties of the store (StoreSpec) *)

SameCell(a, b) == a.key = b.key /\ a.category = b.category

\* C1 as stated: a get that directly follows a set on the same key and
\* category returns the value that set was given, for every value.
C1_SetThenGet ==
    [][(last.op = "set" /\ last'.op = "get" /\ SameCell(last, last'))
          => last'.ret = last.arg]_vars

\* C1 amended: a get that directly follows a set whose write completed
\* without error returns, without a read error, the value that set was
\* given, in each of the three categories.
C1_CompletedSetThenGet ==
    [][(last.op = "set" /\ last.error = "" /\ last'.op = "get"
          /\ SameCell(last, last'))
          => (last'.ret = last.arg /\ last'.error = "" /\ ~last'.raised)]_vars

C1_Witness == last.op = "get" /\ last.ret.kind = "obj" /\ last.category = "nlp"

\* C4 as stated (second half): exists is true right after any set returns.
C4_ExistsAfterAnySet ==
    last.op = "set" => Exists(cache_files, last.key, last.category)

\* C4 amended: the store starts with no cell existing, a clear leaves no
\* cell of its scope existing, a cell comes to exist only by a set on that
\* very cell, and exists is true right after every set that could open the
\* entry's file.
C4_ExistsOnlyAfterSet ==
    [][/\ last.op = "init" =>
            \A k \in Keys, c \in Categories : ~Exists(cache_files, k, c)
       /\ \A k \in Keys, c \in Categories :
            /\ (~Exists(cache_files, k, c) /\ Exists(cache_files', k, c))
                  => (last'.op = "set" /\ last'.key = k /\ last'.category = c)
            /\ (last'.op = "clear" /\ last'.category \in {"", c})
                  => ~Exists(cache_files', k, c)
       /\ (last'.op = "set" /\ last'.error # "open")
            => Exists(cache_files', last'.key, last'.category)
       /\ last'.op = "exists"
            => last'.ret = Bool(CachePath(last'.key, last'.category)
                                  \in DOMAIN cache_files')]_vars

C4_Witness == last.op = "exists" /\ last.ret = Bool(TRUE)

EntriesFor(files, key, category) ==
    {p \in DOMAIN files : p[1] = category /\ p[2] = key}

\* C5 as stated: after a set on a key that already has an entry in the
\* category, get returns the value just written and the category holds
\* exactly one entry for the key.
C5_LaterWriteOverwrites ==
    (last.op = "set" /\ last.existed)
        => /\ Get(cache_files, last.key, last.category).value = last.arg
           /\ Cardinality(EntriesFor(cache_files, last.key, last.category)) = 1

\* C5 amended: the same, for a later set whose write completed without
\* error.
C5_CompletedWriteOverwrites ==
    (last.op = "set" /\ last.existed /\ last.error = "")
        => /\ Get(cache_files, last.key, last.category).value = last.arg
           /\ Cardinality(EntriesFor(cache_files, last.key, last.category)) = 1

C5_Witness == last.op = "set" /\ last.existed /\ last.error = ""

\* C6: clear(c) of a named category leaves no entry in c and leaves every
\* entry of the other categories in place with the bytes it had.
C6_ClearCategoryIsolated ==
    [][(last'.op = "clear" /\ last'.category # "")
          => /\ \A p \in DOMAIN cache_files' : p[1] # last'.category
             /\ \A k \in Keys : ~Exists(cache_files', k, last'.category)
             /\ \A p \in DOMAIN cache_files :
                   p[1] # last'.category
                     => (p \in DOMAIN cache_files'
                           /\ cache_files'[p] = cache_files[p])]_vars

C6_Witness ==
    /\ last.op = "clear" /\ last.category = "data" /\ last.existed
    /\ \E k \in Keys : Get(cache_files, k, "nlp").value = Obj("v1")

\* C7: clear() with no category leaves no entry in any category.
C7_ClearAllRemovesEverything ==
    (last.op = "clear" /\ last.category = "")
        => /\ DOMAIN cache_files = {}
           /\ \A k \in Keys, c \in Categories : ~Exists(cache_files, k, c)

C7_Witness == last.op = "clear" /\ last.category = "" /\ last.existed

\* C8: a cell becomes present only by a set on that cell, becomes absent
\* only by a clear whose scope covers its category, and exists, get and
\* get_cache_size change no cell and no stored bytes.
C8_CellTransitions ==
    [][/\ \A p \in (DOMAIN cache_files) \cup (DOMAIN cache_files') :
            /\ (p \notin DOMAIN cache_files /\ p \in DOMAIN cache_files')
                  => (last'.op = "set"
                        /\ CachePath(last'.key, last'.category) = p)
            /\ (p \in DOMAIN cache_files /\ p \notin DOMAIN cache_files')
                  => (last'.op = "clear" /\ last'.category \in {"", p[1]})
            /\ (p \in DOMAIN cache_files /\ p \in DOMAIN cache_files'
                  /\ cache_files'[p] # cache_files[p])
                  => (last'.op = "set"
                        /\ CachePath(last'.key, last'.category) = p)
       /\ last'.op \in {"exists", "get", "get_cache_size"}
            => cache_files' = cache_files]_vars

C8_Witness ==
    /\ last.op = "get_cache_size"
    /\ \E c \in Categories : last.ret.sizes[c].file_count > 0

C37_ExistsAgreesWithGet ==
    \A k \in Keys, c \in Categories :
       Exists(cache_files, k, c) <=> Get(cache_files, k, c).value # None

\* C38: a set that reports an error leaves its cell as it was: get returns
\* what it returned before the call, and a cell that was absent is absent.
C38_FailedSetKeepsCell ==
    [][(last'.op = "set" /\ last'.error # "")
          => /\ Get(cache_files', last'.key, last'.category).value
                   = Get(cache_files, last'.key, last'.category).value
             /\ Exists(cache_files', last'.key, last'.category)
                   = Exists(cache_files, last'.key, last'.category)]_vars

----------------------------------------------------------------------------
(* Properties of the store's categories (AreaSpec) *)

\* C31: after a set on a category that had no directory, exists is true
\* of the cell and get returns the value set
C31_SetCreatesCategory ==
    (last.op = "set" /\ last.category \notin Categories)
        => /\ Exists(cache_files, last.key, last.category)
           /\ Get(cache_files, last.key, last.category).value = last.arg

----------------------------------------------------------------------------
(* Properties of concurrent sets (RaceSpec) *)

BothReturned == \A p \in Procs : writers.at[p].pc = "returned"

\* the process whose set returned last
LastWriter == writers.returned[Len(writers.returned)]

\* get can only return a value one of the two processes set
ReadsAValueSet ==
    \A r \in GetStream(cache_files, RaceKey, "data") :
       \E p \in Procs : r.value = RaceValue(p)

\* get can only return the value of the process whose set returned last
ReadsLastWriter ==
    \A r \in GetStream(cache_files, RaceKey, "data") :
       r.value = RaceValue(LastWriter)

\* C28: once the sets of both processes have returned, the cell is present
\* and get returns the value of one of them and no other, the value of the
\* process whose set returned last
C28_LastWriterWins ==
    BothReturned =>
        /\ Exists(cache_files, RaceKey, "data")
        /\ ReadsAValueSet
        /\ ReadsLastWriter

----------------------------------------------------------------------------
(* Properties of the pipeline (Spec) *)

\* the stages, and the entry of results each of them fills
StageKey(op) ==
    CASE op = "analyze_sentiment" -> "sentiment"
      [] op = "extract_entities" -> "entities"
      [] op = "extract_keywords" -> "keywords"

StageOps == {"analyze_sentiment", "extract_entities", "extract_keywords"}

\* the methods that hold a cache envelope
CachedOps == {"load_structured_data", "analyze_sentiment", "extract_entities"}

PipelineOps == CachedOps \cup {"load_text_column", "extract_keywords"}

\* the call a step made, made on the same object with caching disabled
Uncached(step) ==
    LET self == [Self EXCEPT !.use_cache = FALSE] IN
    CASE step.op = "load_structured_data" ->
           LoadStructuredData(self, cache_files, fs, step.arg.s, "ok")
      [] step.op = "load_text_column" ->
           LoadTextColumn(self, cache_files, step.arg.s[1])
      [] step.op = "analyze_sentiment" ->
           AnalyzeSentiment(self, cache_files, fs, "ok")
      [] step.op = "extract_entities" ->
           ExtractEntities(self, cache_files, fs, "ok")
      [] step.op = "extract_keywords" ->
           ExtractKeywords(self, cache_files, step.arg.s[1], TopN)

\* a step leaves the table, the text entries and the results that the same
\* call leaves with caching disabled
SameAsUncached(step) ==
    \E u \in {Uncached(step)} :
       /\ data_df' = u.self.data_df
       /\ text_data' = u.self.text_data
       /\ results' = u.self.results

\* C2 as stated: when a stage runs twice in a row with caching enabled, its
\* inputs unchanged and the first run completed with no cache warning, the
\* second run gives the same output and does not invoke the collaborator.
C2_SecondRunServedFromCache ==
    [][(/\ last.op \in StageOps
        /\ last'.op = last.op
        /\ last'.again
        /\ use_cache
        /\ last.raised = ""
        /\ last.set_error = ""
        /\ (last.computed \/ last.hit))
          => (/\ ~last'.computed
              /\ results'[StageKey(last.op)] = results[StageKey(last.op)])]_vars

\* C3 as stated: with caching enabled, every load and stage ends with the
\* table, the text entries and the results that the same call ends with
\* when caching is disabled (every edit of a file changes its modification
\* time).  The first step of a run that breaks this is the first operation
\* after which the run differs from the same run made with caching disabled.
C3_CachingTransparent ==
    [][(last'.op \in PipelineOps /\ use_cache) => SameAsUncached(last')]_vars

\* C10: a load or stage whose cache write fails raises nothing and leaves
\* in the table or the results the value it computes with caching disabled.
C10_FailedWriteStillCompletes ==
    [][(last'.op \in CachedOps /\ last'.set_error # "")
          => (last'.raised = "" /\ last'.computed /\ SameAsUncached(last'))]_vars

C10_Witness ==
    /\ last.op = "analyze_sentiment"
    /\ last.set_error = "dump"
    /\ last.raised = ""
    /\ "sentiment" \in DOMAIN results
    /\ results["sentiment"] = SentimentResults(text_data)
    /\ cache_files[CachePath(last.key, "nlp")] = Truncated

----------------------------------------------------------------------------
(* Properties of _generate_key (KeySpec) *)

\* two calls of _generate_key in a row, no file edited in between
TwoKeyCalls == last.op = "_generate_key" /\ last.again

\* C11 as stated: two calls of _generate_key on the same value, in the same
\* process or in two processes, the files unmodified in between, return the
\* same key.
C11_KeyDeterministic ==
    (TwoKeyCalls /\ last.before.arg = last.arg) => last.before.key = last.key

\* C12 as stated: two tables, two lists or two strings that differ get
\* different keys.
C12_KeySensitive ==
    (TwoKeyCalls /\ last.before.arg.kind = last.arg.kind
                 /\ last.before.arg # last.arg)
        => last.before.key # last.key

----------------------------------------------------------------------------
(* Properties of the pipeline (Spec), continued *)

KeyOfPath(file_path, fsys) == GenerateKey(file_path, fsys, ThisProcess)

\* C13 as stated: an edit of an existing file changes the key of its path,
\* and a load with caching enabled leaves in data_df what the file holds at
\* the time of the load, not the table cached for an earlier version.
C13_EditedFileIsReread ==
    [][/\ last'.op = "edit" => KeyOfPath(last'.arg, fs') # KeyOfPath(last'.arg, fs)
       /\ (last'.op = "load_structured_data" /\ last'.raised = "" /\ use_cache)
             => data_df' = ReadTable(fs, last'.arg.s)]_vars

\* the entries of results hold values of their own stage
OwnResults ==
    /\ "sentiment" \in DOMAIN results => results["sentiment"].kind = "sentiment"
    /\ "entities" \in DOMAIN results => results["entities"].kind = "entities"

\* the readable entry, if any, in the cell the last stage used
CellOfLast == cache_files[CachePath(last.key, last.category)]

\* C14: the cell a stage uses never holds a value of the other stage, and
\* results['sentiment'] and results['entities'] hold values of their own
\* stage, whatever sequence of stage runs shares the cache.
C14_StagesShareNoCell ==
    /\ OwnResults
    /\ (/\ last.op \in {"analyze_sentiment", "extract_entities"}
        /\ CachePath(last.key, last.category) \in DOMAIN cache_files
        /\ CellOfLast.fmt = "pickle")
          => CellOfLast.obj.kind = StageKey(last.op)

C14_Witness ==
    /\ last.op = "extract_entities"
    /\ last.hit
    /\ "sentiment" \in DOMAIN results
    /\ results["entities"].kind = "entities"
    /\ Cardinality({p \in DOMAIN cache_files :
                       p[1] = "nlp" /\ cache_files[p].fmt = "pickle"}) = 2

\* the methods of the pipeline that go to the cache when there is one, and
\* the loading of the text
CacheUsers ==
    {"load_structured_data", "load_text_column", "analyze_sentiment",
     "extract_entities", "extract_keywords"}

\* the call touched no cell of the cache: nothing was looked up, nothing
\* was served, nothing was written and no warning of the store was printed
NoCacheTraffic ==
    /\ cache_files' = cache_files
    /\ last'.key = NoKey
    /\ ~last'.hit
    /\ last'.get_error = ""
    /\ last'.set_error = ""

\* the call did what the method does when it computes: the table read from
\* an existing file of a supported suffix, the present cells of an existing
\* column, the collaborator's value for a corpus that is not empty
NormalEffect ==
    CASE last'.op = "load_structured_data" ->
           (FsExists(fs, last'.arg.s)
               /\ Suffix(last'.arg.s) \in SupportedSuffixes)
             => /\ last'.raised = ""
                /\ data_df' = ReadTable(fs, last'.arg.s)
                /\ text_data' = text_data /\ results' = results
      [] last'.op = "load_text_column" ->
           (data_df # None /\ last'.arg.s[1] \in Range(data_df.columns))
             => /\ last'.raised = ""
                /\ text_data' = DropNa(Column(data_df, last'.arg.s[1]))
                /\ data_df' = data_df /\ results' = results
      [] last'.op = "analyze_sentiment" ->
           (text_data # << >> /\ AllStr(text_data))
             => /\ last'.raised = ""
                /\ results' = ("sentiment" :> SentimentResults(text_data))
                                  @@ results
                /\ data_df' = data_df /\ text_data' = text_data
      [] last'.op = "extract_entities" ->
           (text_data # << >> /\ AllStr(text_data))
             => /\ last'.raised = ""
                /\ results' = ("entities" :> NlpExtractEntities(text_data))
                                  @@ results
                /\ data_df' = data_df /\ text_data' = text_data
      [] OTHER ->
           (text_data # << >> /\ AllStr(text_data))
             => /\ last'.raised = ""
                /\ "keywords" \in DOMAIN results'
                /\ results'["keywords"].keywords =
                      NlpExtractKeywords(text_data, results'["keywords"].method,
                                         TopN)
                /\ data_df' = data_df /\ text_data' = text_data

\* C30: a call of a loading or analysis method on a pipeline constructed
\* with use_cache=False has the method's normal effect on the table, the
\* text and the results, and reads and writes no cell of the cache
C30_DisabledCacheIsUntouched ==
    [][(~use_cache /\ last'.op \in CacheUsers)
          => (NoCacheTraffic /\ NormalEffect)]_vars

\* a pipeline without a cache has read a table from its file while the
\* cache holds an entry for the path of that file
C30_Witness ==
    /\ ~use_cache
    /\ last.op = "load_structured_data"
    /\ last.computed
    /\ data_df = ReadTable(fs, last.arg.s)
    /\ PathExists(cache_files,
                  CachePath(GenerateKey(last.arg, fs, ThisProcess), "data"))

\* the key a method with a cache envelope derives from its input
InputKey(op, arg) ==
    CASE op = "load_structured_data" -> GenerateKey(arg, fs, ThisProcess)
      [] op = "analyze_sentiment" ->
           GenerateKey(Str(StrOfList(text_data)), fs, ThisProcess)
      [] op = "extract_entities" ->
           GenerateKey(Str(StrOfList(text_data) \o <<"_entities">>), fs,
                       ThisProcess)

\* the category a method with a cache envelope looks its key up in
CategoryOf(op) == IF op = "load_structured_data" THEN "data" ELSE "nlp"

\* the cell the call of the step looks up
InputCell(step) == CachePath(InputKey(step.op, step.arg), CategoryOf(step.op))

\* the call gets as far as its lookup: the file is there, the corpus is
\* not empty
ReachesLookup(step) ==
    IF step.op = "load_structured_data" THEN FsExists(fs, step.arg.s)
    ELSE text_data # << >>

\* the call put the value stored in its cell into the pipeline, computed
\* nothing and wrote nothing
Served(step) ==
    /\ step.hit
    /\ ~step.computed
    /\ step.raised = ""
    /\ cache_files' = cache_files
    /\ IF step.op = "load_structured_data"
       THEN data_df' = PickleLoad(cache_files[InputCell(step)]).value
       ELSE results'[StageKey(step.op)]
               = PickleLoad(cache_files[InputCell(step)]).value

\* C32 as stated: with caching enabled, a load or a cached stage whose
\* cell exists puts the stored value into the pipeline, computes nothing
\* and writes nothing to the store
C32_ExistingCellIsServed ==
    [][(/\ use_cache
        /\ last'.op \in CachedOps
        /\ PathExists(cache_files, InputCell(last')))
          => Served(last')]_vars

\* C32 amended: the same, when the call gets as far as its lookup and the
\* entry in the cell can be read
C32_ReadableCellIsServed ==
    [][(/\ use_cache
        /\ last'.op \in CachedOps
        /\ ReachesLookup(last')
        /\ PathExists(cache_files, InputCell(last'))
        /\ ~PickleLoad(cache_files[InputCell(last')]).raised)
          => Served(last')]_vars

\* analyze_sentiment was served from the cache what its cell holds
C32_Witness ==
    /\ last.op = "analyze_sentiment"
    /\ last.hit
    /\ ~last.computed
    /\ results["sentiment"]
          = PickleLoad(cache_files[CachePath(last.key, "nlp")]).value

\* a cached stage is called with caching enabled on a corpus of strings
\* for whose key the category holds no entry
StageMisses(step) ==
    /\ use_cache
    /\ step.op \in {"analyze_sentiment", "extract_entities"}
    /\ text_data # << >>
    /\ AllStr(text_data)
    /\ ~PathExists(cache_files, InputCell(step))

\* C33: with caching enabled and no entry for the key of its corpus, a
\* cached stage computes its result, and when it returns after a write
\* that succeeded, the cell of that key is present and get on it returns
\* the value the stage put into results
C33_MissComputesAndStores ==
    [][StageMisses(last') =>
          /\ last'.computed
          /\ ~last'.hit
          /\ last'.key = InputKey(last'.op, last'.arg)
          /\ (last'.raised = "" /\ last'.set_error = "") =>
                /\ PathExists(cache_files', InputCell(last'))
                /\ Get(cache_files', last'.key, "nlp").value
                      = results'[StageKey(last'.op)]
                /\ Get(cache_files', last'.key, "nlp").error = ""]_vars

\* extract_entities has computed its result on a miss and the cell of its
\* key holds it
C33_Witness ==
    /\ last.op = "extract_entities"
    /\ last.computed
    /\ last.set_error = ""
    /\ use_cache
    /\ Get(cache_files, last.key, "nlp").value = results["entities"]
    /\ results["entities"] = NlpExtractEntities(text_data)

\* the call of the step returns after finding in its cell an entry that
\* cannot be read
FindsUnreadableCell(step) ==
    /\ use_cache
    /\ step.op \in CachedOps
    /\ ReachesLookup(step)
    /\ PathExists(cache_files, InputCell(step))
    /\ PickleLoad(cache_files[InputCell(step)]).raised
    /\ step.raised = ""

\* the value the call of the step put into the pipeline
PutBy(step) ==
    IF step.op = "load_structured_data" THEN data_df'
    ELSE results'[StageKey(step.op)]

\* the call computed its value and left it readable in its cell
Heals(step) ==
    /\ step.computed
    /\ ~step.hit
    /\ step.get_error = "read"
    /\ Get(cache_files', step.key, CategoryOf(step.op))
          = [value |-> PutBy(step), error |-> "", raised |-> FALSE]

\* the step repeats the call made last, which found its cell unreadable
RepeatsRecovery(step) ==
    /\ use_cache
    /\ last.op \in CachedOps
    /\ last.get_error = "read"
    /\ last.computed
    /\ last.raised = ""
    /\ step.op = last.op
    /\ step.arg = last.arg

\* C39 as stated: a load or a cached stage that finds its cell present but
\* unreadable computes its value and overwrites the cell, a get on the cell
\* then returns the computed value, and the same call made next is served
\* from the cache
C39_UnreadableCellHeals ==
    [][/\ FindsUnreadableCell(last') => Heals(last')
       /\ RepeatsRecovery(last') => (last'.hit /\ ~last'.computed)]_vars

\* C39 amended: the same, when the write of the recomputing call succeeds
C39_UnreadableCellHealsWhenWritten ==
    [][/\ (FindsUnreadableCell(last') /\ last'.set_error = "")
            => Heals(last')
       /\ (RepeatsRecovery(last') /\ last.set_error = "")
            => (last'.hit /\ ~last'.computed)]_vars

\* analyze_sentiment has found its cell unreadable, computed its result and
\* left it readable in the cell
C39_Witness ==
    /\ last.op = "analyze_sentiment"
    /\ last.get_error = "read"
    /\ last.computed
    /\ last.set_error = ""
    /\ results["sentiment"] = SentimentResults(text_data)
    /\ Get(cache_files, last.key, "nlp")
          = [value |-> results["sentiment"], error |-> "", raised |-> FALSE]

----------------------------------------------------------------------------
(* Properties of the stages and the correlations (StageSpec) *)

TextStageOps ==
    {"analyze_text", "analyze_sentiment", "extract_entities",
     "extract_keywords", "detect_topics", "analyze_complexity"}

CorrelationOps ==
    {"correlate_sentiment_with_column", "correlate_data_with_text_length"}

NoTable == data_df = None

NoText == text_data = << >>

UnknownColumn(step) == step.arg.s[1] \notin Range(data_df.columns)

\* the precondition of the call a step made is unmet in the state it is
\* made in: no text for a text stage; no table or no numeric column for the
\* data statistics; no table, no text or an unknown column for a correlation
PreconditionUnmet(step) ==
    \/ step.op \in TextStageOps /\ NoText
    \/ step.op = "analyze_data"
          /\ (NoTable \/ NumericColumns(data_df) = << >>)
    \/ step.op \in CorrelationOps
          /\ (NoTable \/ NoText \/ UnknownColumn(step))

\* the same, the correlation with the sentiment requiring a sentiment
\* result in place of text
NothingToDo(step) ==
    \/ step.op \in TextStageOps /\ NoText
    \/ step.op = "analyze_data"
          /\ (NoTable \/ NumericColumns(data_df) = << >>)
    \/ step.op = "correlate_data_with_text_length"
          /\ (NoTable \/ NoText \/ UnknownColumn(step))
    \/ step.op = "correlate_sentiment_with_column"
          /\ ("sentiment" \notin DOMAIN results \/ NoTable
                \/ UnknownColumn(step))

\* the call returned and changed neither the pipeline nor the cache
ReturnedWithoutEffect(step) ==
    /\ step.raised = ""
    /\ ~step.computed
    /\ UNCHANGED <<data_df, text_data, results, cache_files>>

\* C15 as stated: a stage called with its precondition unmet returns
\* without raising and leaves the table, the text entries, the results and
\* the cache as they were.
C15_UnmetPreconditionIsNoOp ==
    [][PreconditionUnmet(last') => ReturnedWithoutEffect(last')]_vars

\* C15 amended: the same, where what correlate_sentiment_with_column
\* requires is a sentiment result, a table and a known column (not text).
C15_NothingToDoIsNoOp ==
    [][NothingToDo(last') => ReturnedWithoutEffect(last')]_vars

C15_Witness ==
    /\ last.op = "analyze_sentiment"
    /\ NoText
    /\ ~last.computed
    /\ last.raised = ""
    /\ "sentiment" \in DOMAIN results
    /\ cache_files # << >>

\* the entry of results under the name, None when there is none
Entry(res, name) == IF name \in DOMAIN res THEN res[name] ELSE None

\* the call returned and left the entry of results as it was
Refused(name) ==
    /\ last'.raised = ""
    /\ Entry(results', name) = Entry(results, name)

\* a call of correlate_data_with_text_length with a table whose number of
\* rows is not the number of text entries
TextLengthMismatch ==
    /\ last'.op = "correlate_data_with_text_length"
    /\ data_df # None
    /\ Len(text_data) # Len(data_df.rows)

\* a call of correlate_sentiment_with_column with a table whose number of
\* rows is not the number of stored sentiment records
SentimentLengthMismatch ==
    /\ last'.op = "correlate_sentiment_with_column"
    /\ data_df # None
    /\ "sentiment" \in DOMAIN results
    /\ Len(results["sentiment"].sentiments) # Len(data_df.rows)

\* C17: a correlation called with sequences of different lengths returns
\* normally and leaves its entry of results as it was:
\* correlate_data_with_text_length when the number of text entries is not
\* the number of rows, correlate_sentiment_with_column when the number of
\* sentiment records is not the number of rows
C17_LengthMismatchIsRefused ==
    [][/\ TextLengthMismatch => Refused("correlation")
       /\ SentimentLengthMismatch => Refused("correlations")]_vars

\* C24: every entry of the text is a str
C24_TextEntriesAreStrings == AllStr(text_data)

\* the sections of a report follow the order of ReportSections
InSectionOrder(report) ==
    report = SelectSeq(ReportSections, LAMBDA section : section \in Range(report))

\* C26: the report of the pipeline has its sections in the fixed order, a
\* section only for an entry of results, and a section for every entry of
\* results
C26_ReportRendersEveryResult ==
    /\ InSectionOrder(GenerateReport(Self))
    /\ \A section \in Range(GenerateReport(Self)) : section \in DOMAIN results
    /\ \A name \in DOMAIN results : name \in Range(GenerateReport(Self))

----------------------------------------------------------------------------
(* Properties of loading (LoadSpec) *)

\* the call left the table, the text, the results and the cache files as
\* they were
StateKept ==
    /\ data_df' = data_df
    /\ text_data' = text_data
    /\ results' = results
    /\ cache_files' = cache_files

\* C18: load_structured_data on a path at which there is no file raises
\* FileNotFoundError and leaves the table, the text, the results and the
\* cache files as they were, whatever the cache holds
C18_MissingFileRaises ==
    [][(last'.op = "load_structured_data" /\ ~FsExists(fs, last'.arg.s))
          => (last'.raised = "FileNotFoundError" /\ StateKept)]_vars

\* a load of a removed file has raised while the cache holds, under the key
\* of its path, the table stored for it earlier, and the pipeline holds a
\* table
C18_Witness ==
    /\ last.op = "load_structured_data"
    /\ last.raised = "FileNotFoundError"
    /\ use_cache
    /\ PathExists(cache_files,
                  CachePath(GenerateKey(last.arg, fs, ThisProcess), "data"))
    /\ data_df # None

\* C19: load_structured_data on an existing file whose suffix is not
\* supported raises ValueError, with the cache enabled or not, and leaves
\* the table, the text, the results and the cache files as they were
C19_UnsupportedSuffixRaises ==
    [][(/\ last'.op = "load_structured_data"
        /\ FsExists(fs, last'.arg.s)
        /\ Suffix(last'.arg.s) \notin SupportedSuffixes)
          => (last'.raised = "ValueError" /\ StateKept)]_vars

\* a load of the text file has raised in a pipeline with the cache enabled
\* that holds a table, text and a result, the cache holding entries
C19_Witness ==
    /\ last.op = "load_structured_data"
    /\ last.raised = "ValueError"
    /\ use_cache
    /\ data_df # None
    /\ text_data # << >>
    /\ results # << >>
    /\ cache_files # << >>

\* load_text_column has nothing to read the column from
NoSuchColumn(column_name) ==
    data_df = None \/ column_name \notin Range(data_df.columns)

\* C20: load_text_column without a table, or with a name that is no column
\* of the table, raises ValueError and leaves the table, the text, the
\* results and the cache files as they were; with a table that has the
\* column it returns
C20_TextColumnNeedsTableAndColumn ==
    [][last'.op = "load_text_column"
          => IF NoSuchColumn(last'.arg.s[1])
             THEN last'.raised = "ValueError" /\ StateKept
             ELSE last'.raised = ""]_vars

\* load_text_column has raised for a name that is no column of the loaded
\* table, in a pipeline that holds text and a result
C20_Witness ==
    /\ last.op = "load_text_column"
    /\ last.raised = "ValueError"
    /\ data_df # None
    /\ text_data # << >>
    /\ results # << >>

\* the first call of a new pipeline with the cache enabled is a load of an
\* existing file for whose path the cache holds a readable entry
FirstLoadOfCachedFile ==
    /\ last.op = "__init__"
    /\ use_cache
    /\ last'.op = "load_structured_data"
    /\ FsExists(fs, last'.arg.s)
    /\ Get(cache_files, GenerateKey(last'.arg, fs, ThisProcess),
           "data").value # None

\* C29: constructing a pipeline leaves every cache file as it is, and the
\* first load of a new pipeline with the cache enabled, of a file that an
\* earlier pipeline loaded and cached and that has not changed since, is
\* served from the cache the table that is in the file
C29_CacheOutlivesInstance ==
    [][/\ last'.op = "__init__" => cache_files' = cache_files
       /\ FirstLoadOfCachedFile =>
             /\ last'.hit
             /\ last'.raised = ""
             /\ data_df' = ReadTable(fs, last'.arg.s)
             /\ cache_files' = cache_files]_vars

\* a pipeline that has made no other call holds a table served from the
\* cache
C29_Witness ==
    /\ last.op = "load_structured_data"
    /\ last.hit
    /\ ~last.again
    /\ data_df = ReadTable(fs, last.arg.s)
    /\ text_data = << >>
    /\ results = << >>

----------------------------------------------------------------------------
(* Properties of loading, cleaning and the stages together (FlowSpec) *)

\* the loading and the cleaning methods
FrameOps ==
    {"load_structured_data", "load_text_column", "load_text_file",
     "clean_data", "clean_text"}

\* the entries of results
ResultKeys ==
    {"data_statistics", "text_statistics", "sentiment", "entities",
     "keywords", "topics", "complexity", "correlation", "correlations"}

\* the method that writes the entry
Owner(name) ==
    CASE name = "data_statistics" -> "analyze_data"
      [] name = "text_statistics" -> "analyze_text"
      [] name = "sentiment" -> "analyze_sentiment"
      [] name = "entities" -> "extract_entities"
      [] name = "keywords" -> "extract_keywords"
      [] name = "topics" -> "detect_topics"
      [] name = "complexity" -> "analyze_complexity"
      [] name = "correlation" -> "correlate_data_with_text_length"
      [] OTHER -> "correlate_sentiment_with_column"

\* C21: a call of a loading or cleaning method leaves results as it was,
\* and an entry of results is added, changed or removed only by a call of
\* the method that writes it, by process_batch, or by the construction of
\* a new pipeline
C21_LoadingAndCleaningKeepResults ==
    [][/\ last'.op \in FrameOps => results' = results
       /\ \A name \in ResultKeys :
             Entry(results', name) # Entry(results, name)
                => last'.op \in {Owner(name), "process_batch", "__init__"}]_vars

\* clean_text has replaced the text a sentiment result was computed from,
\* and the result is still there
C21_Witness ==
    /\ last.op = "clean_text"
    /\ last.raised = ""
    /\ "sentiment" \in DOMAIN results
    /\ results["sentiment"].total # Len(text_data)

\* the stage whose call the step is has put its result into results: the
\* call returned, after computing the result or finding it in the cache
Succeeded(step) == step.raised = "" /\ (step.computed \/ step.hit)

\* the stages that have put their result into results in the step just
\* made: the stage called, or the stages process_batch has run on its last
\* file
SucceededNow ==
    IF last'.op = "process_batch" THEN last'.done
    ELSE IF Succeeded(last') THEN {last'.op} ELSE {}

\* the step starts the pipeline anew: a construction, or a process_batch
\* that has reset the pipeline for a file
ResetNow ==
    \/ last'.op = "__init__"
    \/ last'.op = "process_batch" /\ last'.arg.file_paths # << >>

PresentCount(df, column_name) ==
    IF df = None THEN 0
    ELSE IF column_name \notin Range(df.columns) THEN 0
    ELSE Len(DropNa(Column(df, column_name)))

\* the methods that replace the text by one derived from somewhere else
TextLoaders ==
    {"load_text_column", "load_text_file", "process_batch", "__init__"}

\* C23 as stated: whenever the text has been derived from a column by
\* load_text_column, it has as many entries as the column of the loaded
\* table has cells that are not missing: so it is when load_text_column
\* returns, and so it stays over the call that follows
C23_TextLengthIsColumnCount ==
    [][/\ (last'.op = "load_text_column" /\ last'.raised = "")
             => Len(text_data') = PresentCount(data_df', last'.arg.s[1])
       /\ (/\ last.op = "load_text_column"
           /\ last.raised = ""
           /\ last'.op \notin TextLoaders)
             => Len(text_data') = PresentCount(data_df', last.arg.s[1])]_vars

\* C23: when load_text_column returns, the text has as many entries as the
\* column of the loaded table has cells that are not missing
C23_LoadedTextLengthIsColumnCount ==
    [][(last'.op = "load_text_column" /\ last'.raised = "")
          => Len(text_data') = PresentCount(data_df', last'.arg.s[1])]_vars

\* load_text_column has returned a text shorter than the table
C23_Witness ==
    /\ last.op = "load_text_column"
    /\ last.raised = ""
    /\ text_data # << >>
    /\ Len(text_data) < Len(data_df.rows)

\* the lines of a text file that hold more than whitespace, in file order
NonBlankLines(file_path) ==
    SelectSeq(fs[file_path].doc.lines, LAMBDA line : Strip(line) # << >>)

\* texts holds no empty entry
NoEmptyEntry(texts) == \A i \in 1..Len(texts) : texts[i] # Str(<< >>)

\* C35: load_text_file of a file that exists returns in every state of the
\* pipeline, with or without a table; afterwards text_data is the lines of
\* the file with their surrounding whitespace removed, in file order and
\* without the lines that held nothing else, whatever text was held before,
\* and the table and the results are the ones held before.
C35_LoadTextFileReplacesText ==
    [][(last'.op = "load_text_file" /\ FsExists(fs, last'.arg.s))
          => /\ last'.raised = ""
             /\ Len(text_data') = Len(NonBlankLines(last'.arg.s))
             /\ \A i \in 1..Len(text_data') :
                   text_data'[i] = Str(Strip(NonBlankLines(last'.arg.s)[i]))
             /\ NoEmptyEntry(text_data')
             /\ data_df' = data_df
             /\ results' = results]_vars

\* a pipeline without a table that holds results has loaded the text file
C35_Witness ==
    /\ last.op = "load_text_file"
    /\ last.raised = ""
    /\ data_df = None
    /\ results # << >>
    /\ text_data = <<Str(<<"great!">>), Str(<<"http://x">>),
                     Str(<<"bad", "a@b">>)>>

\* after is what is left of some of the entries of before, in their order
CleanedInOrder(before, after) ==
    \E f \in [1..Len(after) -> 1..Len(before)] :
       /\ \A i, j \in 1..Len(after) : i < j => f[i] < f[j]
       /\ \A i \in 1..Len(after) : after[i] = CleanEntry(before[f[i]])

\* C36: after clean_text has returned no entry of text_data is empty,
\* text_data is not longer than before and holds what is left of the
\* surviving entries in their order, and the table and the results are
\* unchanged; clean_text of an empty text_data changes nothing, and so does
\* a clean_text that raises; clean_data does not add a row to the table and
\* does not change text_data.
C36_CleaningOnlyRemoves ==
    [][/\ last'.op = "clean_text"
          => /\ last'.raised = ""
                   => /\ NoEmptyEntry(text_data')
                      /\ CleanedInOrder(text_data, text_data')
             /\ last'.raised # "" => text_data' = text_data
             /\ Len(text_data') <= Len(text_data)
             /\ data_df' = data_df
             /\ results' = results
             /\ text_data = << >> => text_data' = << >>
       /\ last'.op = "clean_data"
          => /\ text_data' = text_data
             /\ data_df # None
                   => Len(data_df'.rows) <= Len(data_df.rows)
             /\ data_df = None => data_df' = None]_vars

\* clean_text has dropped the entry that held a URL only, next to a table
\* and results
C36_Witness ==
    /\ last.op = "clean_text"
    /\ ~last.again
    /\ text_data = <<Str(<<"great">>), Str(<<"bad">>)>>
    /\ data_df # None
    /\ results # << >>

----------------------------------------------------------------------------
(* Properties of process_batch (BatchSpec) *)

\* the text load_text_column derives from the table of the file
TextOf(fsys, file_path, text_column) ==
    DropNa(Column(ReadTable(fsys, file_path), text_column))

\* processing the file on its own fails: there is no such file, its type
\* is not supported, its table has no such column, or a stage raises on
\* the text of the column
FileFails(fsys, file_path, text_column) ==
    \/ ~FsExists(fsys, file_path)
    \/ Suffix(file_path) \notin SupportedSuffixes
    \/ text_column \notin Range(ReadTable(fsys, file_path).columns)
    \/ ~AllStr(TextOf(fsys, file_path, text_column))

\* C25: process_batch returns one record for each file path, in the order
\* of the paths, each a success record or an error record; successful and
\* failed add up to total_files, the number of paths; and the record of a
\* file is an error record exactly when that file fails on its own,
\* whatever happened to the files before it
C25_BatchRecordsEveryFile ==
    [][last'.op = "process_batch" =>
          LET file_paths == last'.arg.file_paths
              ret == last'.ret
          IN /\ Len(ret.results) = Len(file_paths)
             /\ ret.total_files = Len(file_paths)
             /\ ret.successful + ret.failed = ret.total_files
             /\ \A i \in 1..Len(file_paths) :
                   /\ ret.results[i].file = file_paths[i]
                   /\ ("error" \in DOMAIN ret.results[i])
                         # ("results" \in DOMAIN ret.results[i])
                   /\ ("error" \in DOMAIN ret.results[i])
                         <=> FileFails(fs, file_paths[i],
                                       last'.arg.text_column)]_vars

\* a batch of two files has returned an error record for the first and a
\* success record with results for the second
C25_Witness ==
    /\ last.op = "process_batch"
    /\ Len(last.ret.results) = 2
    /\ "error" \in DOMAIN last.ret.results[1]
    /\ "results" \in DOMAIN last.ret.results[2]
    /\ last.ret.results[2].results # << >>

\* the record a batch of this one file returns to a new pipeline
Alone(file_path, text_column) ==
    ProcessBatch(NewSelf(use_cache), cache_files, fs, <<file_path>>,
                 text_column).all_results[1]

\* C34: the record process_batch returns for a file is the record that
\* file gets when a new pipeline processes it on its own, whatever the
\* pipeline held before the batch and whatever files came before and
\* after it in the batch
C34_BatchRecordsAreIndependent ==
    [][last'.op = "process_batch" =>
          \A i \in 1..Len(last'.arg.file_paths) :
             last'.ret.results[i]
                = Alone(last'.arg.file_paths[i], last'.arg.text_column)]_vars

\* a batch has returned, for a table with a numeric column and then a
\* table without one, a record with data statistics and then a record
\* without them
C34_Witness ==
    /\ last.op = "process_batch"
    /\ Len(last.ret.results) = 2
    /\ "results" \in DOMAIN last.ret.results[1]
    /\ "results" \in DOMAIN last.ret.results[2]
    /\ "data_statistics" \in DOMAIN last.ret.results[1].results
    /\ DOMAIN last.ret.results[2].results = {"text_statistics", "sentiment"}

----------------------------------------------------------------------------
(* Properties of the sentiment classes (SentimentSpec) *)

\* the records of a sentiment result whose polarity is above the threshold
Above(r) ==
    {i \in 1..Len(r.sentiments) : r.sentiments[i].polarity > PolarityThreshold}

\* the records whose polarity is below the negated threshold
Below(r) ==
    {i \in 1..Len(r.sentiments) :
        r.sentiments[i].polarity < 0 - PolarityThreshold}

\* the counts of a sentiment result are the numbers of its records above
\* the threshold, below its negation, and of the others
CountsByThreshold(r) ==
    /\ r.positive_count = Cardinality(Above(r))
    /\ r.negative_count = Cardinality(Below(r))
    /\ r.neutral_count = Len(r.sentiments) - Cardinality(Above(r) \cup Below(r))
    /\ r.positive_count + r.neutral_count + r.negative_count = r.total
    /\ r.total = Len(r.sentiments)

\* the table the export wrote gives each row the class its record was
\* counted in
ExportedClasses(r, df) ==
    \A i \in 1..Len(df.rows) :
       LET class == df.rows[i]["sentiment_category"]
       IN /\ class = Str(<<"Positive">>) <=> i \in Above(r)
          /\ class = Str(<<"Negative">>) <=> i \in Below(r)
          /\ class = Str(<<"Neutral">>) <=> i \notin Above(r) \cup Below(r)

\* an export that wrote its file for a pipeline holding a sentiment result
ExportedSentiment ==
    /\ last'.op = "export_results"
    /\ last'.computed
    /\ "sentiment" \in DOMAIN results'

\* C27: every sentiment result counts each of its records in exactly one
\* class, positive above 0.1, negative below -0.1, neutral otherwise, so
\* the three counts add up to total, the number of records; and the class
\* export_results writes for a row is the class its record was counted in
C27_EachEntryInOneClass ==
    [][/\ "sentiment" \in DOMAIN results' =>
               CountsByThreshold(results'["sentiment"])
       /\ ExportedSentiment =>
               ExportedClasses(results'["sentiment"],
                               fs'[ResultsPath(last'.arg.s[1])].doc)]_vars

\* an export has written the classes of a table with a review on each
\* threshold
C27_Witness ==
    /\ last.op = "export_results"
    /\ last.computed
    /\ "sentiment" \in DOMAIN results
    /\ \E i, j \in 1..Len(results["sentiment"].sentiments) :
          /\ results["sentiment"].sentiments[i].polarity = PolarityThreshold
          /\ results["sentiment"].sentiments[j].polarity = 0 - PolarityThreshold

----------------------------------------------------------------------------
(* Properties of the sentiment cache over several corpora (CorpusSpec) *)

\* C40: when analyze_sentiment has returned on a corpus that is not empty,
\* served from the cache or not and whatever the cache holds for other
\* corpora, results['sentiment'] is about the text held: its total and the
\* number of its per-entry records are the number of entries of text_data.
C40_SentimentDescribesCurrentText ==
    (last.op = "analyze_sentiment" /\ last.raised = "" /\ text_data # << >>)
        => /\ "sentiment" \in DOMAIN results
           /\ results["sentiment"].total = Len(text_data)
           /\ Len(results["sentiment"].sentiments) = Len(text_data)

\* analyze_sentiment was served from the cache for a corpus of two entries
\* while the cache held the results of corpora of other lengths
C40_Witness ==
    /\ last.op = "analyze_sentiment"
    /\ last.hit
    /\ Len(text_data) = 2
    /\ results["sentiment"].total = 2
    /\ \E p \in Glob(cache_files, "nlp") :
          /\ cache_files[p].fmt = "pickle"
          /\ cache_files[p].obj.kind = "sentiment"
          /\ cache_files[p].obj.total = 3
    /\ \E p \in Glob(cache_files, "nlp") :
          /\ cache_files[p].fmt = "pickle"
          /\ cache_files[p].obj.kind = "sentiment"
          /\ cache_files[p].obj.total = 1

----------------------------------------------------------------------------
(* Properties of a run of the command line (CliSpec) *)

\* the stage calls the command line asks for and whose text is there
AskedStages(args, self) ==
    {step \in StageFlags :
        /\ Requested(args, step)
        /\ (step \in NeedText => self.text_data # << >>)}

\* C16: when one analysis stage of a run raises, the run is not aborted:
\* every other stage the command line asks for has run and the report has
\* been generated
C16_StageFailureDoesNotAbort ==
    (last.op = "run_pipeline" /\ last.failed \in StageFlags)
        => /\ last.exit = 0
           /\ last.generated
           /\ AskedStages(last.arg, Self) \ {last.failed} \subseteq last.ran

====
